---- MODULE Spec2Model ----
(***************************************************************************)
(* A model of linxal's data-layout layer: the layout resolver              *)
(* (util/internal.rs), the pivot permutation (permute.rs), the LU and QR   *)
(* factor sets with their computation, factor extraction and inversion     *)
(* (factorization/lu.rs, qr.rs), and the status handling of the singular   *)
(* value decomposition (svd/general.rs).                                   *)
(*                                                                         *)
(* Matrices are records [m, n, d, order]: m rows, n columns, d a sequence  *)
(* of m rows of n integers, order the memory order of the owned array      *)
(* ("C" row-major, "F" column-major).  Scalars are small integers, on      *)
(* which f32 arithmetic is exact.                                          *)
(***************************************************************************)
EXTENDS Integers, Sequences, FiniteSets, TLC

VARIABLES view, res, pm, piv, pout, luIn, luFs, luOut, qrIn, qrFs, qrOut,
          svdIn, svdOut, caller, lsIn, lsOut, propIn, propOut

vars == <<view, res, pm, piv, pout, luIn, luFs, luOut, qrIn, qrFs, qrOut,
          svdIn, svdOut, caller, lsIn, lsOut, propIn, propOut>>

layoutVars == <<view, res>>
permVars == <<pm, piv, pout>>
luVars == <<luIn, luFs, luOut>>
qrVars == <<qrIn, qrFs, qrOut>>
svdVars == <<svdIn, svdOut>>
lsVars == <<lsIn, lsOut>>
propVars == <<propIn, propOut>>

(***************************************************************************)
(* Bounds of the model.                                                    *)
(***************************************************************************)
\* Width of usize in bits (the arithmetic of the element count wraps at it).
UsizeBits == 8
\* Largest number of rows and of columns of a base array a view is cut from.
MaxBase == 3
\* Largest number of rows of a matrix a permutation is applied to.
PermMaxRows == 4
\* Largest number of columns of a matrix a permutation is applied to.
PermMaxCols == 2
\* Largest number of elements (rows times columns) of a factored matrix.
MaxElems == 9

\* Largest number of elements of a matrix in the specification of the
\* factor sets and their callers.
FrameMaxElems == 4
DiagMax == 3
FracBase == 1000000
DenBase == 1000

UsizeMod == 2 ^ UsizeBits

Idle == [tag |-> "Idle"]

\* A value that was moved out of: the array given to compute_into, the
\* factor set given to inverse_into.
Moved == [tag |-> "Moved"]

Min(a, b) == IF a <= b THEN a ELSE b

Max(a, b) == IF a >= b THEN a ELSE b

Abs(a) == IF a < 0 THEN 0 - a ELSE a

(***************************************************************************)
(* Matrix views, as ndarray hands them to the resolver: a shape, two       *)
(* strides in elements, the offset of the first element in the backing     *)
(* buffer and the number of elements that buffer owns.                     *)
(***************************************************************************)
Orders == {"C", "F"}

\* Strides of an owned array of shape (m, n) in the given memory order.
\* "Strided" is a row-major array cut in place to every second column
\* (slice_collapse / islice of an array of 2n columns).
OwnedStrides(m, n, order) ==
    IF order = "C" THEN <<n, 1>>
    ELSE IF order = "F" THEN <<1, m>>
    ELSE <<2 * n, 2>>

OwnedView(m, n, order) ==
    [rows |-> m, cols |-> n,
     s0 |-> OwnedStrides(m, n, order)[1], s1 |-> OwnedStrides(m, n, order)[2],
     off |-> 0, buflen |-> m * n]

\* Number of indices of a slice start..end taken with the given step.
SliceLen(start, end, step) ==
    IF end <= start THEN 0
    ELSE ((end - start) + (Abs(step) - 1)) \div Abs(step)

\* Offset, in indices of the sliced axis, of the slice's first element.
SliceFirst(start, end, step) ==
    IF end <= start THEN start
    ELSE IF step < 0 THEN end - 1 ELSE start

Steps == {1, 2, 0 - 1}

\* The view v.slice(s![r0..r1;rs, c0..c1;cs]).
SliceView(v, r0, r1, rs, c0, c1, cs) ==
    [rows |-> SliceLen(r0, r1, rs), cols |-> SliceLen(c0, c1, cs),
     s0 |-> v.s0 * rs, s1 |-> v.s1 * cs,
     off |-> v.off + SliceFirst(r0, r1, rs) * v.s0 + SliceFirst(c0, c1, cs) * v.s1,
     buflen |-> v.buflen]

\* The view v.t().
TransposeView(v) ==
    [rows |-> v.cols, cols |-> v.rows, s0 |-> v.s1, s1 |-> v.s0,
     off |-> v.off, buflen |-> v.buflen]

\* Every view cut from an owned array of at most MaxBase x MaxBase elements
\* by one slice, transposed or not.
Views(maxBase) ==
    LET bases == {OwnedView(m, n, o) : m \in 1..maxBase, n \in 1..maxBase, o \in Orders}
        sliced == UNION {
            {SliceView(b, r[1], r[2], rs, c[1], c[2], cs) :
                r \in {p \in (0..b.rows) \X (0..b.rows) : p[1] <= p[2]},
                c \in {p \in (0..b.cols) \X (0..b.cols) : p[1] <= p[2]},
                rs \in Steps, cs \in Steps} : b \in bases}
    IN sliced \cup {TransposeView(v) : v \in sliced}

\* Offsets in the backing buffer of the elements of a view.
ElementOffsets(v) ==
    {v.off + i * v.s0 + j * v.s1 : i \in 0..(v.rows - 1), j \in 0..(v.cols - 1)}

(***************************************************************************)
(* The layout resolver.  Its element count is computed in usize: in a      *)
(* build with overflow checks a subtraction below zero panics, in one      *)
(* without it wraps.  The resolver's outcomes are therefore a set.         *)
(***************************************************************************)
\* (major - 1) * ld + minor, as the build computes it in usize.
NelemOutcomes(major, ld, minor) ==
    LET exact == (major - 1) * ld + minor
        wrapped == ((((major - 1) % UsizeMod) * ld) + minor) % UsizeMod
    IN IF major - 1 < 0 \/ exact >= UsizeMod
         THEN {[tag |-> "Panic"], [tag |-> "Count", nelem |-> wrapped]}
         ELSE {[tag |-> "Count", nelem |-> exact]}

SomeLayout(c, layout, ld) ==
    IF c.tag = "Panic" THEN [tag |-> "Panic"]
    ELSE [tag |-> "Some", layout |-> layout, ld |-> ld, nelem |-> c.nelem]

slice_and_layout_mut(v) ==
    IF v.s0 < 0 \/ v.s1 < 0 THEN {[tag |-> "None"]}
    ELSE IF v.s1 = 1
      THEN {SomeLayout(c, "RowMajor", v.s0) : c \in NelemOutcomes(v.rows, v.s0, v.cols)}
    ELSE IF v.s0 = 1
      THEN {SomeLayout(c, "ColumnMajor", v.s1) : c \in NelemOutcomes(v.cols, v.s1, v.rows)}
    ELSE {[tag |-> "None"]}

(***************************************************************************)
(* Specification of the resolver alone: a view is drawn, then resolved.    *)
(***************************************************************************)
LayoutInit ==
    /\ view \in Views(MaxBase)
    /\ res = Idle
    /\ pm = Idle /\ piv = <<>> /\ pout = Idle
    /\ luIn = Idle /\ luFs = Idle /\ luOut = Idle
    /\ qrIn = Idle /\ qrFs = Idle /\ qrOut = Idle
    /\ svdIn = Idle /\ svdOut = Idle
    /\ lsIn = Idle /\ lsOut = Idle /\ propIn = Idle /\ propOut = Idle
    /\ caller = Idle

Resolve ==
    /\ res = Idle
    /\ \E o \in slice_and_layout_mut(view) : res' = o
    /\ UNCHANGED <<view, permVars, luVars, qrVars, svdVars, lsVars, propVars, caller>>

LayoutNext == Resolve

SpecLayout == LayoutInit /\ [][LayoutNext]_vars

\* What the caller of the resolver sees of an outcome: the tag, the layout
\* and the leading dimension.
Decision(o) ==
    IF o.tag = "Some" THEN <<"Some", o.layout, o.ld>> ELSE <<o.tag, "", 0>>

LastOffset(v) ==
    CHOOSE x \in ElementOffsets(v) : \A y \in ElementOffsets(v) : y <= x

(***************************************************************************)
(* C5: on strides (s0, s1) the resolver returns failure when a stride is   *)
(* negative, else RowMajor with leading dimension s0 when s1 = 1, else     *)
(* ColumnMajor with leading dimension s1 when s0 = 1, else failure; no     *)
(* other outcome is possible.                                              *)
(***************************************************************************)
C5_DecisionTable ==
    res # Idle =>
        Decision(res) =
            IF view.s0 < 0 \/ view.s1 < 0 THEN <<"None", "", 0>>
            ELSE IF view.s1 = 1 THEN <<"Some", "RowMajor", view.s0>>
            ELSE IF view.s0 = 1 THEN <<"Some", "ColumnMajor", view.s1>>
            ELSE <<"None", "", 0>>

(***************************************************************************)
(* C6: for every accepted view the slice has (rows-1)*ld + cols elements   *)
(* (RowMajor) or (cols-1)*ld + rows elements (ColumnMajor), that count is  *)
(* the offset of the view's last element plus one, and the slice stays     *)
(* within the backing buffer, zero rows and zero columns included.         *)
(***************************************************************************)
C6_SliceWithinBuffer ==
    (res # Idle /\ res.tag = "Some") =>
        /\ res.nelem = IF res.layout = "RowMajor"
                         THEN (view.rows - 1) * res.ld + view.cols
                         ELSE (view.cols - 1) * res.ld + view.rows
        /\ ElementOffsets(view) # {} => res.nelem = (LastOffset(view) - view.off) + 1
        /\ view.off + res.nelem <= view.buflen

(***************************************************************************)
(* C7: a view with a single row or a single column and non-negative        *)
(* strides is always accepted and resolved as RowMajor.                    *)
(***************************************************************************)
C7_VectorIsRowMajor ==
    (res # Idle /\ (view.rows = 1 \/ view.cols = 1) /\ view.s0 >= 0 /\ view.s1 >= 0) =>
        (res.tag = "Some" /\ res.layout = "RowMajor")

(***************************************************************************)
(* Matrices.                                                               *)
(***************************************************************************)
\* The matrix linspace(1, m*n).into_shape((m, n)): every element distinct.
Linspace(m, n, order) ==
    [m |-> m, n |-> n, order |-> order,
     d |-> [i \in 1..m |-> [j \in 1..n |-> (i - 1) * n + j]]]

\* The view of an owned matrix.
ViewOf(mat) == OwnedView(mat.m, mat.n, mat.order)

(***************************************************************************)
(* The backend's row interchange xLASWP, called through LAPACKE: for       *)
(* i = k1..k2 in order (incx = 1), row i is exchanged with row ipiv[i],    *)
(* rows numbered from 1.  The routine checks no pivot: an index outside    *)
(* 1..m makes it read and write memory outside the matrix, after which it  *)
(* either crashes or returns with foreign values in the matrix.            *)
(***************************************************************************)
SwapRows(d, i, p, junk) ==
    IF p \in DOMAIN d THEN [d EXCEPT ![i] = d[p], ![p] = d[i]]
    ELSE [d EXCEPT ![i] = junk]

RECURSIVE ApplySwaps(_, _, _, _, _)
ApplySwaps(d, ipiv, i, k2, junk) ==
    IF i > k2 THEN d
    ELSE ApplySwaps(SwapRows(d, i, ipiv[i], junk), ipiv, i + 1, k2, junk)

JunkRows(n) == {[j \in 1..n |-> x] : x \in {0, 0 - 1}}

laswp(layout, n, a, lda, k1, k2, ipiv) ==
    IF layout = "RowMajor" /\ lda < n
      THEN {[tag |-> "Ret", info |-> 0 - 4, mat |-> a, oob |-> FALSE]}
    ELSE IF \A i \in k1..k2 : ipiv[i] \in 1..a.m
      THEN {[tag |-> "Ret", info |-> 0, oob |-> FALSE,
             mat |-> [a EXCEPT !.d = ApplySwaps(a.d, ipiv, k1, k2, <<>>)]]}
    ELSE {[tag |-> "Crash", oob |-> TRUE]} \cup
         {[tag |-> "Ret", info |-> 0, oob |-> TRUE,
           mat |-> [a EXCEPT !.d = ApplySwaps(a.d, ipiv, k1, k2, junk)]] :
             junk \in JunkRows(n)}

(***************************************************************************)
(* MatrixPermutation and Permutable::permute_into.                         *)
(***************************************************************************)
from_ipiv(ipiv) == [tag |-> "Perm", ipiv |-> ipiv]

AfterLaswp(o) ==
    IF o.tag = "Crash" THEN [tag |-> "Crash", oob |-> TRUE]
    ELSE IF o.info = 0 THEN [tag |-> "Some", mat |-> o.mat, oob |-> o.oob]
    ELSE [tag |-> "None", oob |-> o.oob]

\* A plausible slip: the pivots rebased before the backend call.
Rebase(ipiv) == [i \in DOMAIN ipiv |-> ipiv[i] + 1]

permute_into_rebased(mat, ipiv) ==
    IF Len(ipiv) > mat.m THEN {[tag |-> "None", oob |-> FALSE]}
    ELSE UNION {
        IF r.tag = "Panic" THEN {[tag |-> "Panic", oob |-> FALSE]}
        ELSE IF r.tag = "None" THEN {[tag |-> "None", oob |-> FALSE]}
        ELSE {AfterLaswp(o) :
                o \in laswp(r.layout, mat.n, mat, r.ld, 1, Len(ipiv), Rebase(ipiv))}
        : r \in slice_and_layout_mut(ViewOf(mat))}

\* A plausible slip: the last interchange left out (k2 one short).
permute_into_short(mat, ipiv) ==
    IF Len(ipiv) > mat.m THEN {[tag |-> "None", oob |-> FALSE]}
    ELSE UNION {
        IF r.tag = "Panic" THEN {[tag |-> "Panic", oob |-> FALSE]}
        ELSE IF r.tag = "None" THEN {[tag |-> "None", oob |-> FALSE]}
        ELSE {AfterLaswp(o) :
                o \in laswp(r.layout, mat.n, mat, r.ld, 1, Len(ipiv) - 1, ipiv)}
        : r \in slice_and_layout_mut(ViewOf(mat))}

permute_into(mat, ipiv) ==
    IF Len(ipiv) > mat.m THEN {[tag |-> "None", oob |-> FALSE]}
    ELSE UNION {
        IF r.tag = "Panic" THEN {[tag |-> "Panic", oob |-> FALSE]}
        ELSE IF r.tag = "None" THEN {[tag |-> "None", oob |-> FALSE]}
        ELSE {AfterLaswp(o) : o \in laswp(r.layout, mat.n, mat, r.ld, 1, Len(ipiv), ipiv)}
        : r \in slice_and_layout_mut(ViewOf(mat))}

\* permute(&mat) copies the matrix and permutes the copy.
permute(mat, ipiv) == permute_into(mat, ipiv)

(***************************************************************************)
(* Specification of the permutation: a matrix and a permutation built      *)
(* from a pivot sequence are drawn, then the permutation is applied.       *)
(***************************************************************************)
RECURSIVE SeqsUpTo(_, _)
SeqsUpTo(S, len) ==
    IF len = 0 THEN {<<>>}
    ELSE LET shorter == SeqsUpTo(S, len - 1)
         IN shorter \cup {Append(q, x) : q \in {t \in shorter : Len(t) = len - 1}, x \in S}

\* Pivot sequences for a matrix of m rows: every sequence of at most m
\* pivots from 0..m+1, and one that is longer than the matrix has rows.
PivotSeqs(m) ==
    SeqsUpTo(0..(m + 1), m) \cup {[i \in 1..(m + 1) |-> 1]}

PermInit ==
    /\ \E m \in 0..PermMaxRows, n \in 1..PermMaxCols, o \in Orders :
          /\ pm = Linspace(m, n, o)
          /\ \E q \in PivotSeqs(m) : piv = from_ipiv(q)
    /\ pout = Idle
    /\ view = Idle /\ res = Idle
    /\ luIn = Idle /\ luFs = Idle /\ luOut = Idle
    /\ qrIn = Idle /\ qrFs = Idle /\ qrOut = Idle
    /\ svdIn = Idle /\ svdOut = Idle
    /\ lsIn = Idle /\ lsOut = Idle /\ propIn = Idle /\ propOut = Idle
    /\ caller = Idle

PermuteInto ==
    /\ pout = Idle
    /\ \E o \in permute_into(pm, piv.ipiv) : pout' = o @@ [op |-> "permute_into"]
    /\ UNCHANGED <<pm, piv, layoutVars, luVars, qrVars, svdVars, lsVars, propVars, caller>>

Permute ==
    /\ pout = Idle
    /\ \E o \in permute(pm, piv.ipiv) : pout' = o @@ [op |-> "permute"]
    /\ UNCHANGED <<pm, piv, layoutVars, luVars, qrVars, svdVars, lsVars, propVars, caller>>

PermNext == PermuteInto \/ Permute

SpecPerm == PermInit /\ [][PermNext]_vars

(***************************************************************************)
(* Statements about the permutation.                                       *)
(***************************************************************************)
Applied == pout # Idle

PivotsWithin(lo, hi) == \A i \in DOMAIN piv.ipiv : piv.ipiv[i] \in lo..hi

\* The transposition (i p) applied to the index x.
Transpose(i, p, x) == IF x = i THEN p ELSE IF x = p THEN i ELSE x

\* The row of the original matrix that ends in row x after the exchanges
\* (1 ipiv[1]), ..., (k ipiv[k]) were made in this order.
RECURSIVE TraceBack(_, _, _)
TraceBack(x, ipiv, k) ==
    IF k = 0 THEN x ELSE TraceBack(Transpose(k, ipiv[k], x), ipiv, k - 1)

ComposedRows(d, ipiv) == [r \in DOMAIN d |-> d[TraceBack(r, ipiv, Len(ipiv))]]

\* Replay of the same transpositions in reverse order: i = len down to 1.
RECURSIVE ReverseReplay(_, _, _)
ReverseReplay(d, ipiv, k) ==
    IF k = 0 THEN d
    ELSE ReverseReplay([d EXCEPT ![k] = d[ipiv[k]], ![ipiv[k]] = d[k]], ipiv, k - 1)

(***************************************************************************)
(* C2 as stated: the exchanges are made in pivot order with the pivots     *)
(* read as 0-based row indices (step i exchanges rows i and pivots[i],     *)
(* both counted from 0), whatever base the backend emits.                  *)
(***************************************************************************)
C2_ZeroBasedSequential ==
    (Applied /\ pm.m >= 1 /\ pm.order = "C" /\ Len(piv.ipiv) <= pm.m
       /\ PivotsWithin(0, pm.m - 1)) =>
        (pout.tag = "Some" /\ pout.mat.d = ComposedRows(pm.d, Rebase(piv.ipiv)))

(***************************************************************************)
(* C2 amended: the exchanges are made in pivot order, for i from 1 to len  *)
(* row i with row ipiv[i], the pivots read as 1-based row indices as the   *)
(* backend emits them; an entry ipiv[i] = i changes nothing; the result is *)
(* the composition of the transpositions.  It holds for len <= rows and    *)
(* pivots in 1..rows; a standard-layout matrix with a row is then always   *)
(* returned, and no row outside the matrix is touched.                     *)
(***************************************************************************)
C2_OneBasedSequential ==
    (Applied /\ Len(piv.ipiv) <= pm.m /\ PivotsWithin(1, pm.m)) =>
        /\ ~pout.oob
        /\ pout.tag \in {"Some", "None", "Panic"}
        /\ (pm.m >= 1 /\ pm.order = "C") => pout.tag = "Some"
        /\ pout.tag = "Some" =>
              /\ pout.mat = [pm EXCEPT !.d = ComposedRows(pm.d, piv.ipiv)]
              /\ (\A i \in DOMAIN piv.ipiv : piv.ipiv[i] = i) => pout.mat = pm

\* Non-commuting exchanges were applied and the result differs from the
\* array lookup row i := row ipiv[i].
C2_Witness ==
    /\ Applied /\ pout.tag = "Some"
    /\ pm.m = 3 /\ piv.ipiv = <<2, 3, 3>>
    /\ pout.mat.d # [r \in 1..3 |-> pm.d[piv.ipiv[r]]]
    /\ pout.mat.d = <<pm.d[2], pm.d[3], pm.d[1]>>

(***************************************************************************)
(* C3: a pivot outside the rows of the matrix (here: outside them whether  *)
(* counted from 0 or from 1) makes the application fail with an error      *)
(* value; no matrix is returned and no row outside the matrix is touched.  *)
(***************************************************************************)
C3_OutOfRangeRejected ==
    (Applied /\ Len(piv.ipiv) <= pm.m
       /\ \E i \in DOMAIN piv.ipiv : piv.ipiv[i] < 0 \/ piv.ipiv[i] > pm.m) =>
        (pout.tag = "None" /\ ~pout.oob)

(***************************************************************************)
(* C4 as stated: for pivots in [0, rows), applying the permutation and     *)
(* replaying the transpositions it made in reverse order returns the       *)
(* original matrix.                                                        *)
(***************************************************************************)
C4_ZeroBasedRoundTrip ==
    (Applied /\ pm.m >= 1 /\ pm.order = "C" /\ Len(piv.ipiv) <= pm.m
       /\ PivotsWithin(0, pm.m - 1)) =>
        /\ pout.tag = "Some"
        /\ ~pout.oob
        /\ ReverseReplay(pout.mat.d, piv.ipiv, Len(piv.ipiv)) = pm.d

(***************************************************************************)
(* C4 amended: for pivots in [1, rows] (1-based, e.g. [2,2,3,3] on four    *)
(* rows), applying the permutation and replaying the same transpositions   *)
(* in reverse order returns the original matrix exactly.                   *)
(***************************************************************************)
C4_OneBasedRoundTrip ==
    (Applied /\ Len(piv.ipiv) <= pm.m /\ PivotsWithin(1, pm.m)) =>
        /\ (pm.m >= 1 /\ pm.order = "C") => pout.tag = "Some"
        /\ pout.tag = "Some" =>
              ReverseReplay(pout.mat.d, piv.ipiv, Len(piv.ipiv)) = pm.d

C4_Witness ==
    /\ Applied /\ pout.tag = "Some"
    /\ pm.m = 4 /\ piv.ipiv = <<2, 2, 3, 3>>
    /\ pout.mat.d # pm.d
    /\ ReverseReplay(pout.mat.d, piv.ipiv, 4) = pm.d

(***************************************************************************)
(* Dense arithmetic on matrices (ndarray's zeros, slice assignment, dot).  *)
(***************************************************************************)
Scalars == {0, 1}

\* Every m x n matrix over Scalars, in the given memory order.
AllMatrices(m, n, order) ==
    {[m |-> m, n |-> n, order |-> order, d |-> d] : d \in [1..m -> [1..n -> Scalars]]}

zeros(m, n) ==
    [m |-> m, n |-> n, order |-> "C", d |-> [i \in 1..m |-> [j \in 1..n |-> 0]]]

\* dst.slice_mut(s![..rows, ..cols]).assign(&src.slice(s![..rows, ..cols]))
AssignTopLeft(dst, src, rows, cols) ==
    [dst EXCEPT !.d = [i \in 1..dst.m |-> [j \in 1..dst.n |->
        IF i <= rows /\ j <= cols THEN src.d[i][j] ELSE dst.d[i][j]]]]

(***************************************************************************)
(* The scalars of the factored matrices (f32, f64).  A scalar is a         *)
(* fraction in lowest terms.  One with denominator 1 is held as the        *)
(* integer itself, of magnitude below FracBase; one with numerator p and   *)
(* denominator d > 1 as the integer of magnitude FracBase + |p| * DenBase  *)
(* + d and the sign of p, so that equal scalars are equal integers and a   *)
(* scalar has the sign of the integer that holds it.  Floating point       *)
(* computes sums, products and quotients of small values exactly as long   *)
(* as every denominator is a power of two ("dyadic").                      *)
(***************************************************************************)
RECURSIVE Gcd(_, _)
Gcd(a, b) == IF b = 0 THEN a ELSE Gcd(b, a % b)

IsInt(x) == Abs(x) < FracBase

Num(x) ==
    IF IsInt(x) THEN x
    ELSE IF x < 0 THEN 0 - ((Abs(x) - FracBase) \div DenBase)
    ELSE (x - FracBase) \div DenBase

Den(x) == IF IsInt(x) THEN 1 ELSE (Abs(x) - FracBase) % DenBase

\* The scalar nm / dn (dn # 0).
Rat(nm, dn) ==
    LET g == Gcd(Abs(nm), Abs(dn))
        p == Abs(nm) \div g
        d == Abs(dn) \div g
        held == IF d = 1 THEN p ELSE FracBase + p * DenBase + d
    IN IF (nm < 0) # (dn < 0) THEN 0 - held ELSE held

Add(x, y) ==
    IF IsInt(x) /\ IsInt(y) THEN x + y
    ELSE Rat(Num(x) * Den(y) + Num(y) * Den(x), Den(x) * Den(y))

Sub(x, y) ==
    IF IsInt(x) /\ IsInt(y) THEN x - y
    ELSE Rat(Num(x) * Den(y) - Num(y) * Den(x), Den(x) * Den(y))

Mul(x, y) ==
    IF IsInt(x) /\ IsInt(y) THEN x * y
    ELSE Rat(Num(x) * Num(y), Den(x) * Den(y))

Div(x, y) == Rat(Num(x) * Den(y), Den(x) * Num(y))

\* |x| <= |y| and |x| < |y|.
MagLeq(x, y) == Abs(Num(x)) * Den(y) <= Abs(Num(y)) * Den(x)

MagLess(x, y) == Abs(Num(x)) * Den(y) < Abs(Num(y)) * Den(x)

RECURSIVE IsPowerOfTwo(_)
IsPowerOfTwo(k) == k = 1 \/ (k > 1 /\ k % 2 = 0 /\ IsPowerOfTwo(k \div 2))

IsDyadic(x) == IsPowerOfTwo(Den(x))

IsZero(x) == Num(x) = 0

IsNeg(x) == Num(x) < 0

RECURSIVE SumTo(_, _)
SumTo(f, k) == IF k = 0 THEN 0 ELSE Add(f[k], SumTo(f, k - 1))

\* The sum of integers.
RECURSIVE IntSumTo(_, _)
IntSumTo(f, k) == IF k = 0 THEN 0 ELSE f[k] + IntSumTo(f, k - 1)

\* Every entry of the matrix is an integer.
Integral(a) == \A i \in 1..a.m : \A j \in 1..a.n : IsInt(a.d[i][j])

\* a.dot(&b): the product, returned as a new array in standard layout.
dot(a, b) ==
    [m |-> a.m, n |-> b.n, order |-> "C",
     d |-> IF Integral(a) /\ Integral(b)
             THEN [i \in 1..a.m |-> [j \in 1..b.n |->
                     IntSumTo([x \in 1..a.n |-> a.d[i][x] * b.d[x][j]], a.n)]]
             ELSE [i \in 1..a.m |-> [j \in 1..b.n |->
                     SumTo([x \in 1..a.n |-> Mul(a.d[i][x], b.d[x][j])], a.n)]]]

(***************************************************************************)
(* The backend's LU factorization xGETRF, called through LAPACKE: Gaussian *)
(* elimination with partial pivoting.  At step i the pivot row is the      *)
(* first row of i..m with the largest magnitude in column i; ipiv[i] is    *)
(* its 1-based index; the rows are exchanged, the multipliers are stored   *)
(* below the diagonal and the trailing rows are updated.  A zero pivot     *)
(* sets info to the first such step.  The model follows it on the inputs   *)
(* whose multipliers are dyadic ("exact").                                 *)
(***************************************************************************)
\* A plausible slip: elimination without partial pivoting, which takes the
\* first row of i..m with a nonzero entry in column i.
PivotRow_first_nonzero(d, i, m) ==
    IF \A q \in i..m : IsZero(d[q][i]) THEN i
    ELSE CHOOSE p \in i..m :
            ~IsZero(d[p][i]) /\ \A q \in i..(p - 1) : IsZero(d[q][i])

PivotRow(d, i, m) ==
    CHOOSE r \in i..m :
        /\ \A q \in i..m : MagLeq(d[q][i], d[r][i])
        /\ \A q \in i..(r - 1) : MagLess(d[q][i], d[r][i])

Eliminate(d, i, m, n) ==
    [r \in 1..m |->
        IF r <= i THEN d[r]
        ELSE [j \in 1..n |->
                IF j < i THEN d[r][j]
                ELSE IF j = i THEN Div(d[r][i], d[i][i])
                ELSE Sub(d[r][j], Mul(Div(d[r][i], d[i][i]), d[i][j]))]]

GetrfStep(st, i, m, n) ==
    LET p == PivotRow(st.d, i, m)
        sw == [st.d EXCEPT ![i] = st.d[p], ![p] = st.d[i]]
    IN IF IsZero(st.d[p][i])
         THEN [st EXCEPT !.ipiv = Append(st.ipiv, p),
                         !.info = IF st.info = 0 THEN i ELSE st.info]
         ELSE [d |-> Eliminate(sw, i, m, n),
               ipiv |-> Append(st.ipiv, p),
               info |-> st.info,
               exact |-> st.exact /\ \A r \in (i + 1)..m :
                                        IsDyadic(Div(sw[r][i], sw[i][i]))]

RECURSIVE GetrfSteps(_, _, _, _, _)
GetrfSteps(st, i, k, m, n) ==
    IF i > k THEN st ELSE GetrfSteps(GetrfStep(st, i, m, n), i + 1, k, m, n)

Factorize(a) ==
    GetrfSteps([d |-> a.d, ipiv |-> <<>>, info |-> 0, exact |-> TRUE],
               1, Min(a.m, a.n), a.m, a.n)

getrf(layout, m, n, a, lda, perm_i) ==
    IF layout = "RowMajor" /\ lda < Max(1, n)
      THEN [info |-> 0 - 5, mat |-> a, ipiv |-> perm_i]
    ELSE IF layout = "ColumnMajor" /\ lda < Max(1, m)
      THEN [info |-> 0 - 4, mat |-> a, ipiv |-> perm_i]
    ELSE LET f == Factorize(a)
         IN [info |-> f.info, mat |-> [a EXCEPT !.d = f.d], ipiv |-> f.ipiv]

(***************************************************************************)
(* LUFactors.                                                              *)
(***************************************************************************)
LU_from_raw(mat, perm) ==
    {IF r.tag = "Panic" THEN [tag |-> "Panic"]
     ELSE IF r.tag = "None" THEN [tag |-> "Err", err |-> <<"BadLayout">>]
     ELSE [tag |-> "Ok", mat |-> mat, perm |-> from_ipiv(perm)]
     : r \in slice_and_layout_mut(ViewOf(mat))}

\* A plausible slip: the backend called on the array as it lies in memory
\* before the resolver's answer is looked at.
LU_compute_into_backend_first(a) ==
    UNION {
        IF r.tag = "Panic" THEN {[tag |-> "Panic", calls |-> 1]}
        ELSE IF r.tag = "None"
          THEN {[tag |-> "Err", err |-> <<"BadLayout">>, calls |-> 1]}
        ELSE LET g == getrf(r.layout, a.m, a.n, a, r.ld,
                            [i \in 1..Min(a.m, a.n) |-> 0 - 1])
             IN IF g.info = 0
                  THEN {f @@ [calls |-> 1] : f \in LU_from_raw(g.mat, g.ipiv)}
                ELSE IF g.info < 0
                  THEN {[tag |-> "Err", err |-> <<"IllegalParameter", 0 - g.info>>,
                         calls |-> 1]}
                ELSE {[tag |-> "Panic", calls |-> 1]}
        : r \in slice_and_layout_mut(ViewOf(a))}

\* Each outcome records in calls how many backend calls were made.
LU_compute_into(a) ==
    UNION {
        IF r.tag = "Panic" THEN {[tag |-> "Panic", calls |-> 0]}
        ELSE IF r.tag = "None"
          THEN {[tag |-> "Err", err |-> <<"BadLayout">>, calls |-> 0]}
        ELSE LET g == getrf(r.layout, a.m, a.n, a, r.ld,
                            [i \in 1..Min(a.m, a.n) |-> 0 - 1])
             IN IF g.info = 0
                  THEN {f @@ [calls |-> 1] : f \in LU_from_raw(g.mat, g.ipiv)}
                ELSE IF g.info < 0
                  THEN {[tag |-> "Err", err |-> <<"IllegalParameter", 0 - g.info>>,
                         calls |-> 1]}
                ELSE {[tag |-> "Panic", calls |-> 1]}
        : r \in slice_and_layout_mut(ViewOf(a))}

\* a.to_owned(): a new array with the elements of a; a contiguous array
\* keeps its memory order, any other is copied into standard order.
to_owned(a) == IF a.order \in Orders THEN a ELSE [a EXCEPT !.order = "C"]

\* A plausible slip: the borrowed matrix handed to the backend, which
\* leaves the first row doubled in it.
borrowed_overwritten(a) == [a EXCEPT !.d[1] = [j \in 1..a.n |-> 2 * a.d[1][j]]]

\* The caller's matrix after compute(&a): a is borrowed immutably.
borrowed_after(a) == a

\* LU::compute(&a) factors a copy of the matrix.
LU_compute(a) == LU_compute_into(to_owned(a))

LU_k(fs) == Min(fs.mat.m, fs.mat.n)

\* The loop of l(): in each of the first k rows, the diagonal is set to one
\* and what lies right of it to zero.
RECURSIVE FixLower(_, _, _)
FixLower(x, r, k) ==
    IF r > k \/ r > x.m THEN x
    ELSE FixLower([x EXCEPT !.d[r] = [c \in 1..x.n |->
                      IF c = r THEN 1 ELSE IF c > r THEN 0 ELSE x.d[r][c]]],
                  r + 1, k)

\* A plausible slip: the loop that fixes the diagonal and the upper triangle left out.
l_without_fix(fs) ==
    AssignTopLeft(zeros(fs.mat.m, LU_k(fs)), fs.mat, fs.mat.m, LU_k(fs))

\* A plausible slip: the loop of l() clears what lies right of the diagonal
\* and leaves the packed diagonal in place.
l_keeps_diagonal(fs) ==
    LET x == AssignTopLeft(zeros(fs.mat.m, LU_k(fs)), fs.mat, fs.mat.m, LU_k(fs))
    IN [x EXCEPT !.d = [i \in 1..x.m |-> [j \in 1..x.n |->
                           IF j > i THEN 0 ELSE x.d[i][j]]]]

l(fs) ==
    FixLower(AssignTopLeft(zeros(fs.mat.m, LU_k(fs)), fs.mat, fs.mat.m, LU_k(fs)),
             1, LU_k(fs))

\* The loop of u() and of compute_r(): in each of the first k rows, what
\* lies left of the diagonal is set to zero.
RECURSIVE FixUpper(_, _, _)
FixUpper(x, r, k) ==
    IF r > k \/ r > x.m THEN x
    ELSE FixUpper([x EXCEPT !.d[r] = [c \in 1..x.n |->
                      IF c < r THEN 0 ELSE x.d[r][c]]],
                  r + 1, k)

\* A plausible slip: the loop that clears the lower triangle left out.
u_without_fix(fs) ==
    AssignTopLeft(zeros(LU_k(fs), fs.mat.n), fs.mat, LU_k(fs), fs.mat.n)

u(fs) ==
    FixUpper(AssignTopLeft(zeros(LU_k(fs), fs.mat.n), fs.mat, LU_k(fs), fs.mat.n),
             1, LU_k(fs))

\* reconstruct(): l().dot(&u()), permuted; a failed permutation panics.
reconstruct(fs) ==
    {IF o.tag = "Some" THEN [tag |-> "Value", mat |-> o.mat]
     ELSE IF o.tag = "None" THEN [tag |-> "Panic"]
     ELSE [tag |-> o.tag]
     : o \in permute_into(dot(l(fs), u(fs)), fs.perm.ipiv)}

(***************************************************************************)
(* The backend's xGETRI, called through LAPACKE: the inverse from the      *)
(* packed factors.  A zero on the diagonal of U gives the status i > 0 of  *)
(* the first such entry; a leading dimension below n the status -4 (the    *)
(* layout counts as the first argument).  The entries of the inverse are   *)
(* not modelled: it is the term "inverse of these factors".                *)
(***************************************************************************)
getri(layout, n, a, lda, ipiv) ==
    IF lda < Max(1, n) THEN [info |-> 0 - 4, mat |-> a]
    ELSE IF \E i \in 1..n : IsZero(a.d[i][i])
      THEN [info |-> CHOOSE i \in 1..n :
                        IsZero(a.d[i][i]) /\ \A j \in 1..(i - 1) : ~IsZero(a.d[j][j]),
            mat |-> a]
    ELSE [info |-> 0,
          mat |-> [m |-> a.m, n |-> a.n, order |-> a.order,
                   inverseOf |-> a.d, ipiv |-> ipiv]]

\* Each outcome records what was done on the way: whether the packed
\* matrix was copied, how many backend calls were made and the last status.
compute_inverse_into(mat, perm) ==
    IF mat.m # mat.n
      THEN {[tag |-> "Err", err |-> <<"NotSquare">>, copied |-> FALSE, calls |-> 0]}
    ELSE {IF o.tag = "Panic" THEN [tag |-> "Panic", copied |-> FALSE, calls |-> 0]
          ELSE IF o.tag = "None"
            THEN [tag |-> "Err", err |-> <<"BadLayout">>, copied |-> FALSE, calls |-> 0]
          ELSE LET g == getri(o.layout, mat.m, mat, o.ld, perm)
               IN IF g.info = 0
                    THEN [tag |-> "Ok", mat |-> g.mat, copied |-> FALSE,
                          calls |-> 1, info |-> g.info]
                  ELSE IF g.info < 0
                    THEN [tag |-> "Err", err |-> <<"IllegalParameter", 0 - g.info>>,
                          copied |-> FALSE, calls |-> 1, info |-> g.info]
                  ELSE [tag |-> "Err", err |-> <<"NotInvertible">>,
                        copied |-> FALSE, calls |-> 1, info |-> g.info]
          : o \in slice_and_layout_mut(ViewOf(mat))}

\* A plausible slip: the copy taken before the shape is looked at.
compute_inverse_copy_first(mat, perm) ==
    {[o EXCEPT !.copied = TRUE] : o \in compute_inverse_into(mat, perm)}

compute_inverse(mat, perm) ==
    IF mat.m # mat.n
      THEN {[tag |-> "Err", err |-> <<"NotSquare">>, copied |-> FALSE, calls |-> 0]}
    ELSE {[o EXCEPT !.copied = TRUE] : o \in compute_inverse_into(mat, perm)}

inverse(fs) == compute_inverse(fs.mat, fs.perm.ipiv)

inverse_into(fs) == compute_inverse_into(fs.mat, fs.perm.ipiv)

perm(fs) == fs.perm

(***************************************************************************)
(* Specification of the LU factor set: a matrix is drawn, factored, and    *)
(* the factor set is queried.                                              *)
(***************************************************************************)
\* The shapes of the factored matrices: at least one row and one column.
Shapes == {sh \in (1..MaxElems) \X (1..MaxElems) : sh[1] * sh[2] <= MaxElems}

FrameShapes == {sh \in Shapes : sh[1] * sh[2] <= FrameMaxElems}

LUInputs(shapes) ==
    UNION {{a \in AllMatrices(sh[1], sh[2], o) : Factorize(a).exact} :
             sh \in shapes, o \in Orders}

\* Array::zeros((n, n)) with diag_mut().assign(entries), as in lu_diag.
diag(entries, order) ==
    [m |-> Len(entries), n |-> Len(entries), order |-> order,
     d |-> [i \in 1..Len(entries) |-> [j \in 1..Len(entries) |->
              IF i = j THEN entries[i] ELSE 0]]]

\* The square diagonal matrices with diagonal entries in 1..DiagMax.
DiagonalInputs ==
    {diag(e, o) : e \in UNION {[1..n -> 1..DiagMax] :
                                 n \in {k \in 1..MaxElems : k * k <= MaxElems}},
                  o \in Orders}

\* The matrix [[1,0,0],[2,2,2],[0,0,3]].
ScenarioA(order) ==
    [m |-> 3, n |-> 3, order |-> order,
     d |-> <<<<1, 0, 0>>, <<2, 2, 2>>, <<0, 0, 3>>>>]

ScenarioInputs == {ScenarioA(o) : o \in Orders}

LUInit ==
    /\ luIn \in LUInputs(Shapes) \cup DiagonalInputs \cup ScenarioInputs
    /\ luFs = Idle /\ luOut = Idle
    /\ view = Idle /\ res = Idle
    /\ pm = Idle /\ piv = <<>> /\ pout = Idle
    /\ qrIn = Idle /\ qrFs = Idle /\ qrOut = Idle
    /\ svdIn = Idle /\ svdOut = Idle
    /\ lsIn = Idle /\ lsOut = Idle /\ propIn = Idle /\ propOut = Idle
    /\ caller = luIn

LUCompute ==
    /\ luIn # Idle /\ luFs = Idle
    /\ \E f \in LU_compute(luIn) : luFs' = f
    /\ caller' = borrowed_after(caller)
    /\ UNCHANGED <<luIn, luOut, layoutVars, permVars, qrVars, svdVars, lsVars, propVars>>

LUL ==
    /\ luFs.tag = "Ok"
    /\ luOut' = [op |-> "l", val |-> [tag |-> "Value", mat |-> l(luFs)]]
    /\ UNCHANGED <<luIn, luFs, layoutVars, permVars, qrVars, svdVars, lsVars, propVars, caller>>

LUU ==
    /\ luFs.tag = "Ok"
    /\ luOut' = [op |-> "u", val |-> [tag |-> "Value", mat |-> u(luFs)]]
    /\ UNCHANGED <<luIn, luFs, layoutVars, permVars, qrVars, svdVars, lsVars, propVars, caller>>

LUReconstruct ==
    /\ luFs.tag = "Ok"
    /\ \E o \in reconstruct(luFs) : luOut' = [op |-> "reconstruct", val |-> o]
    /\ UNCHANGED <<luIn, luFs, layoutVars, permVars, qrVars, svdVars, lsVars, propVars, caller>>

LUPerm ==
    /\ luFs.tag = "Ok"
    /\ luOut' = [op |-> "perm", val |-> [tag |-> "Value", perm |-> perm(luFs)]]
    /\ UNCHANGED <<luIn, luFs, layoutVars, permVars, qrVars, svdVars, lsVars, propVars, caller>>

\* A plausible slip: inverse() written as inverse_into(), which takes the
\* packed matrix out of the factor set.
LUInverse_consuming ==
    /\ luFs.tag = "Ok"
    /\ \E o \in inverse_into(luFs) : luOut' = [op |-> "inverse", val |-> o]
    /\ luFs' = Moved
    /\ UNCHANGED <<luIn, layoutVars, permVars, qrVars, svdVars, lsVars, propVars, caller>>

LUInverse ==
    /\ luFs.tag = "Ok"
    /\ \E o \in inverse(luFs) : luOut' = [op |-> "inverse", val |-> o]
    /\ UNCHANGED <<luIn, luFs, layoutVars, permVars, qrVars, svdVars, lsVars, propVars, caller>>

\* inverse_into(self) consumes the factor set.
LUInverseInto ==
    /\ luFs.tag = "Ok"
    /\ \E o \in inverse_into(luFs) : luOut' = [op |-> "inverse_into", val |-> o]
    /\ luFs' = Moved
    /\ UNCHANGED <<luIn, layoutVars, permVars, qrVars, svdVars, lsVars, propVars, caller>>

\* LU::compute_inverse(&mat, &perm) called on raw parts: the drawn matrix
\* taken as packed factors, with the pivots of no exchange.
LUComputeInverse ==
    /\ luFs = Idle
    /\ \E o \in compute_inverse(luIn, [i \in 1..Min(luIn.m, luIn.n) |-> i]) :
          luOut' = [op |-> "compute_inverse", val |-> o]
    /\ UNCHANGED <<luIn, luFs, layoutVars, permVars, qrVars, svdVars, lsVars, propVars, caller>>

LUNext ==
    \/ LUCompute \/ LUL \/ LUU \/ LUReconstruct
    \/ LUPerm \/ LUInverse \/ LUInverseInto \/ LUComputeInverse

SpecLU == LUInit /\ [][LUNext]_vars

(***************************************************************************)
(* Statements about the LU factor set.                                     *)
(***************************************************************************)
\* The backend's contract, P * L * U = A: undoing the row exchanges of the
\* factorization, last one first, on L * U gives the factored matrix.
GetrfContract ==
    (luFs # Idle /\ luFs.tag = "Ok") =>
        ReverseReplay(dot(l(luFs), u(luFs)).d, luFs.perm.ipiv, Len(luFs.perm.ipiv))
            = luIn.d

(***************************************************************************)
(* C1: for every matrix A and every pivot sequence the factorization       *)
(* emits for it, exchanges that do not commute included, reconstruct()     *)
(* returns A.                                                              *)
(***************************************************************************)
C1_ReconstructReturnsA ==
    (luOut # Idle /\ luOut.op = "reconstruct") =>
        (luOut.val.tag = "Value" /\ luOut.val.mat.d = luIn.d)

(***************************************************************************)
(* C8: l() returns a new m x min(m,n) matrix L with L[r][r] = 1 for every  *)
(* r < min(m,n) whatever the packed value, L[r][c] = 0 for c > r, and      *)
(* L[r][c] = packed[r][c] for c < r; the packed matrix is as the           *)
(* factorization left it.                                                  *)
(***************************************************************************)
C8_LowerFactor ==
    (luOut # Idle /\ luOut.op = "l") =>
        LET L == luOut.val.mat
            packed == luFs.mat
        IN /\ L.m = packed.m /\ L.n = Min(packed.m, packed.n)
           /\ DOMAIN L.d = 1..L.m
           /\ \A r \in 1..L.m :
                /\ DOMAIN L.d[r] = 1..L.n
                /\ \A c \in 1..L.n :
                     L.d[r][c] = IF c = r THEN 1
                                 ELSE IF c > r THEN 0
                                 ELSE packed.d[r][c]
           /\ luFs \in LU_compute(luIn)

\* l() was taken from a packed matrix whose diagonal is not all ones, with
\* a non-zero entry above and one below the diagonal, and more rows than
\* columns.
C8_Witness ==
    /\ luOut # Idle /\ luOut.op = "l"
    /\ luFs.mat.m > luFs.mat.n
    /\ \E r \in 1..luFs.mat.n : luFs.mat.d[r][r] # 1
    /\ \E r \in 1..luFs.mat.m, c \in 1..luFs.mat.n : c > r /\ luFs.mat.d[r][c] # 0
    /\ \E r \in 1..luFs.mat.m, c \in 1..luFs.mat.n : c < r /\ luFs.mat.d[r][c] # 0

(***************************************************************************)
(* C9: u() returns a new min(m,n) x n matrix U with U[r][c] = 0 for c < r  *)
(* and U[r][c] = packed[r][c] for c >= r; the packed matrix is as the      *)
(* factorization left it.                                                  *)
(***************************************************************************)
C9_UpperFactor ==
    (luOut # Idle /\ luOut.op = "u") =>
        LET U == luOut.val.mat
            packed == luFs.mat
        IN /\ U.m = Min(packed.m, packed.n) /\ U.n = packed.n
           /\ DOMAIN U.d = 1..U.m
           /\ \A r \in 1..U.m :
                /\ DOMAIN U.d[r] = 1..U.n
                /\ \A c \in 1..U.n :
                     U.d[r][c] = IF c < r THEN 0 ELSE packed.d[r][c]
           /\ luFs \in LU_compute(luIn)

\* u() was taken from a packed matrix with a non-zero entry below the
\* diagonal and more columns than rows.
C9_Witness ==
    /\ luOut # Idle /\ luOut.op = "u"
    /\ luFs.mat.m < luFs.mat.n
    /\ \E r \in 1..luFs.mat.m, c \in 1..luFs.mat.n : c < r /\ luFs.mat.d[r][c] # 0
    /\ \E r \in 1..luFs.mat.m, c \in 1..luFs.mat.n : c > r /\ luFs.mat.d[r][c] # 0

(***************************************************************************)
(* The backend's QR factorization xGEQRF, called through LAPACKE: one      *)
(* Householder reflection per column (xGEQR2, xLARFG).  At step i, with    *)
(* alpha the diagonal entry and x the column below it: when x is zero the  *)
(* reflection is the identity and tau[i] = 0; else, with                   *)
(* beta = -sign(alpha) * norm(alpha, x), tau[i] = (beta - alpha) / beta,   *)
(* the reflector v = x / (alpha - beta) is stored below the diagonal,      *)
(* beta on it, and H(i) = I - tau v v^T (v[i] = 1) is applied to the       *)
(* columns right of i.  The model follows it on the inputs whose norms are *)
(* rational ("exact"); on the others the arithmetic is not modelled: the   *)
(* backend may leave any matrix in place of the input, with tau zero       *)
(* exactly where nothing is stored below the diagonal.                     *)
(***************************************************************************)
IsSquare(k) == \E s \in 0..k : s * s = k

ISqrt(k) == CHOOSE s \in 0..k : s * s = k

HasSqrt(x) == ~IsNeg(x) /\ IsSquare(Num(x)) /\ IsSquare(Den(x))

Sqrt(x) == Rat(ISqrt(Num(x)), ISqrt(Den(x)))

\* The sum of the squares of column i of d, rows from..m.
RECURSIVE SumSq(_, _, _, _)
SumSq(d, i, from, m) ==
    IF from > m THEN 0
    ELSE Add(Mul(d[from][i], d[from][i]), SumSq(d, i, from + 1, m))

Geqr2Step(st, i, m, n) ==
    LET alpha == st.d[i][i]
        xsq == SumSq(st.d, i, i + 1, m)
        nsq == Add(Mul(alpha, alpha), xsq)
    IN IF ~st.exact THEN st
       ELSE IF IsZero(xsq) THEN [st EXCEPT !.tau = Append(@, 0)]
       ELSE IF ~HasSqrt(nsq) THEN [st EXCEPT !.exact = FALSE]
       ELSE LET beta == IF IsNeg(alpha) THEN Sqrt(nsq) ELSE Sub(0, Sqrt(nsq))
                t == Div(Sub(beta, alpha), beta)
                v == [row \in 1..m |->
                        IF row < i THEN 0 ELSE IF row = i THEN 1
                        ELSE Div(st.d[row][i], Sub(alpha, beta))]
                w == [col \in 1..n |->
                        SumTo([row \in 1..m |-> Mul(v[row], st.d[row][col])], m)]
            IN [d |-> [row \in 1..m |-> [col \in 1..n |->
                         IF row < i \/ col < i THEN st.d[row][col]
                         ELSE IF col = i THEN (IF row = i THEN beta ELSE v[row])
                         ELSE Sub(st.d[row][col], Mul(Mul(t, v[row]), w[col]))]],
                tau |-> Append(st.tau, t),
                exact |-> TRUE]

RECURSIVE Geqr2Steps(_, _, _, _, _)
Geqr2Steps(st, i, k, m, n) ==
    IF i > k THEN st ELSE Geqr2Steps(Geqr2Step(st, i, m, n), i + 1, k, m, n)

geqr2(a) ==
    Geqr2Steps([d |-> a.d, tau |-> <<>>, exact |-> TRUE],
               1, Min(a.m, a.n), a.m, a.n)

TauOf(mat) ==
    [i \in 1..Min(mat.m, mat.n) |->
        IF \A r \in (i + 1)..mat.m : mat.d[r][i] = 0 THEN 0 ELSE 1]

geqrf(layout, m, n, a, lda, tau) ==
    IF layout = "RowMajor" /\ lda < Max(1, n)
      THEN {[info |-> 0 - 5, mat |-> a, tau |-> tau]}
    ELSE IF layout = "ColumnMajor" /\ lda < Max(1, m)
      THEN {[info |-> 0 - 4, mat |-> a, tau |-> tau]}
    ELSE IF geqr2(a).exact
      THEN {[info |-> 0, mat |-> [a EXCEPT !.d = geqr2(a).d], tau |-> geqr2(a).tau]}
    ELSE {[info |-> 0, mat |-> p, tau |-> TauOf(p)] : p \in AllMatrices(m, n, a.order)}

(***************************************************************************)
(* QRFactors.                                                              *)
(***************************************************************************)
QR_from_raw(mat, tau) ==
    {IF r.tag = "Panic" THEN [tag |-> "Panic"]
     ELSE IF r.tag = "None" THEN [tag |-> "Err", err |-> <<"BadLayout">>]
     ELSE [tag |-> "Ok", mat |-> mat, tau |-> tau, m |-> mat.m, n |-> mat.n]
     : r \in slice_and_layout_mut(ViewOf(mat))}

\* Each outcome records in calls how many backend calls were made.
QR_compute_into(a) ==
    UNION {
        IF r.tag = "Panic" THEN {[tag |-> "Panic", calls |-> 0]}
        ELSE IF r.tag = "None"
          THEN {[tag |-> "Err", err |-> <<"BadLayout">>, calls |-> 0]}
        ELSE UNION {
               IF g.info = 0 THEN {f @@ [calls |-> 1] : f \in QR_from_raw(g.mat, g.tau)}
               ELSE IF g.info < 0
                 THEN {[tag |-> "Err", err |-> <<"IllegalParameter", 0 - g.info>>,
                        calls |-> 1]}
               ELSE {[tag |-> "Panic", calls |-> 1]}
               : g \in geqrf(r.layout, a.m, a.n, a, r.ld,
                             [i \in 1..Min(a.m, a.n) |-> 0])}
        : r \in slice_and_layout_mut(ViewOf(a))}

\* QR::compute(&a) factors a copy of the matrix.
QR_compute(a) == QR_compute_into(to_owned(a))

\* ndarray panics on a slice s![..end] whose end lies beyond the axis.
SliceOutOfBounds(end, len) == end > len

\* A plausible slip: the loop that clears below the diagonal left out.
compute_r_without_fix(mat, k) ==
    IF k > Min(mat.m, mat.n) THEN [tag |-> "Err", err |-> <<"InconsistentDimensions">>]
    ELSE [tag |-> "Ok", mat |-> AssignTopLeft(zeros(k, mat.n), mat, k, mat.n)]

\* A plausible slip: k compared with the number of rows only.
compute_r_rows_guard(mat, k) ==
    IF k > mat.m THEN [tag |-> "Err", err |-> <<"InconsistentDimensions">>]
    ELSE [tag |-> "Ok",
          mat |-> FixUpper(AssignTopLeft(zeros(k, mat.n), mat, k, mat.n),
                           1, Min(mat.m, mat.n))]

compute_r(mat, k) ==
    IF k > Min(mat.m, mat.n) THEN [tag |-> "Err", err |-> <<"InconsistentDimensions">>]
    ELSE IF SliceOutOfBounds(k, mat.m)
            \/ \E i \in 0..(Min(k, Min(mat.m, mat.n)) - 1) : SliceOutOfBounds(i, mat.n)
      THEN [tag |-> "Panic"]
    ELSE [tag |-> "Ok",
          mat |-> FixUpper(AssignTopLeft(zeros(k, mat.n), mat, k, mat.n),
                           1, Min(mat.m, mat.n))]

\* A plausible slip: the default ignored, no argument meaning no columns.
unwrap_or_zero(opt, default) == IF opt = <<>> THEN 0 ELSE opt[1]

\* An Option<usize> is <<>> (None) or <<k>> (Some(k)).
unwrap_or(opt, default) == IF opt = <<>> THEN default ELSE opt[1]

rk(fs, k) == compute_r(fs.mat, unwrap_or(k, Min(fs.m, fs.n)))

r(fs) == rk(fs, <<>>)

(***************************************************************************)
(* The backend's xORGQR, called through LAPACKE: it overwrites the m x n   *)
(* matrix a, whose first k columns hold reflectors below the diagonal,     *)
(* with the first n columns of H(1) H(2) ... H(k), where                   *)
(* H(i) = I - tau[i] v v^T and v is 0 above row i, 1 in row i and column i *)
(* of a below it.  Arguments are numbered with the layout as the first.    *)
(***************************************************************************)
Eye(m, n) ==
    [m |-> m, n |-> n, order |-> "C",
     d |-> [i \in 1..m |-> [j \in 1..n |-> IF i = j THEN 1 ELSE 0]]]

ReflectorEntry(a, i, row) ==
    IF row < i THEN 0 ELSE IF row = i THEN 1 ELSE a.d[row][i]

HouseholderH(a, tau, i) ==
    [m |-> a.m, n |-> a.m, order |-> "C",
     d |-> IF IsInt(tau[i]) /\ \A row \in 1..a.m : IsInt(a.d[row][i])
             THEN [row \in 1..a.m |-> [c \in 1..a.m |->
                     (IF row = c THEN 1 ELSE 0)
                       - tau[i] * ReflectorEntry(a, i, row) * ReflectorEntry(a, i, c)]]
             ELSE [row \in 1..a.m |-> [c \in 1..a.m |->
                     Sub(IF row = c THEN 1 ELSE 0,
                         Mul(Mul(tau[i], ReflectorEntry(a, i, row)),
                             ReflectorEntry(a, i, c)))]]]

\* The first a.n columns of H(i) ... H(k).
RECURSIVE HouseholderProduct(_, _, _, _)
HouseholderProduct(a, tau, i, k) ==
    IF i > k THEN Eye(a.m, a.n)
    ELSE dot(HouseholderH(a, tau, i), HouseholderProduct(a, tau, i + 1, k))

orgqr(layout, m, n, k, a, lda, tau) ==
    IF m < 0 THEN [info |-> 0 - 2, mat |-> a]
    ELSE IF n < 0 \/ n > m THEN [info |-> 0 - 3, mat |-> a]
    ELSE IF k < 0 \/ k > n THEN [info |-> 0 - 4, mat |-> a]
    ELSE IF layout = "RowMajor" /\ lda < n THEN [info |-> 0 - 6, mat |-> a]
    ELSE IF layout = "ColumnMajor" /\ lda < Max(1, m) THEN [info |-> 0 - 6, mat |-> a]
    ELSE [info |-> 0, mat |-> [a EXCEPT !.d = HouseholderProduct(a, tau, 1, k).d]]

\* mat.slice(s![.., ..k]).to_owned()
FirstColumns(mat, k) ==
    [m |-> mat.m, n |-> k, order |-> mat.order,
     d |-> [i \in 1..mat.m |-> [j \in 1..k |-> mat.d[i][j]]]]

\* A plausible slip: the number of reflectors handed to the backend taken
\* as the number of columns of the packed matrix, whatever k is.
orgqr_args_reflectors_cols(mat, k) == [m |-> mat.m, n |-> k, k |-> mat.n]

\* The sizes compute_q hands to the backend: rows m, columns k and
\* min(k, n) reflectors.
orgqr_args(mat, k) == [m |-> mat.m, n |-> k, k |-> Min(k, mat.n)]

compute_q(mat, tau, k) ==
    IF k > mat.m THEN {[tag |-> "Err", err |-> <<"InconsistentDimensions">>]}
    ELSE IF SliceOutOfBounds(k, mat.n) THEN {[tag |-> "Panic"]}
    ELSE LET q0 == FirstColumns(mat, k)
         IN {IF o.tag = "Panic" \/ o.tag = "None" THEN [tag |-> "Panic"]
             ELSE LET c == orgqr_args(mat, k)
                      g == orgqr(o.layout, c.m, c.n, c.k, q0, o.ld, tau)
                  IN IF g.info = 0 THEN [tag |-> "Ok", mat |-> g.mat]
                     ELSE [tag |-> "Err", err |-> <<"IllegalParameter", 0 - g.info>>]
             : o \in slice_and_layout_mut(ViewOf(q0))}

\* The backend call behind an outcome of compute_q: the early return, the
\* slice out of range and a resolver that panics come before the call.
NoCall == [tag |-> "NoCall"]

orgqr_call(mat, k, v) ==
    IF v.tag = "Ok" \/ (v.tag = "Err" /\ v.err[1] = "IllegalParameter")
      THEN [tag |-> "Call", m |-> orgqr_args(mat, k).m, n |-> orgqr_args(mat, k).n,
            k |-> orgqr_args(mat, k).k]
    ELSE NoCall

qk(fs, k) == compute_q(fs.mat, fs.tau, unwrap_or(k, Min(fs.m, fs.n)))

q(fs) == qk(fs, <<>>)

\* reconstruct(): q(min(rows, cols)) . r(min(rows, cols)); the tests take
\* both factors as arrays, so a factor that is not one ends the call.
QR_reconstruct(fs) ==
    {IF v.tag = "Ok" /\ rk(fs, <<Min(fs.m, fs.n)>>).tag = "Ok"
       THEN [tag |-> "Value", mat |-> dot(v.mat, rk(fs, <<Min(fs.m, fs.n)>>).mat)]
     ELSE [tag |-> "Panic"]
     : v \in qk(fs, <<Min(fs.m, fs.n)>>)}

(***************************************************************************)
(* Specification of the QR factor set: a matrix is drawn, factored, and    *)
(* the factor set is queried.                                              *)
(***************************************************************************)
\* The matrix of qr_basic_tall and of qr_basic_wide, in the given shape.
qr_basic(m, n, order) ==
    [m |-> m, n |-> n, order |-> order,
     d |-> [i \in 1..m |-> [j \in 1..n |->
              <<0, 2, 2, 0 - 1, 2, 0 - 1, 0, Rat(3, 2), 2, 0 - 1, 2, 0 - 1>>[(i - 1) * n + j]]]]

\* The small matrices over Scalars the backend factors in rational
\* arithmetic, and the two matrices of the tests.
QRExactInputs ==
    UNION {{a \in AllMatrices(sh[1], sh[2], o) : geqr2(a).exact} :
             sh \in FrameShapes, o \in Orders}
      \cup {qr_basic(6, 2, o) : o \in Orders}
      \cup {qr_basic(2, 6, o) : o \in Orders}

QRInit ==
    /\ qrIn \in {Linspace(sh[1], sh[2], o) : sh \in Shapes, o \in Orders}
                    \cup QRExactInputs
    /\ qrFs = Idle /\ qrOut = Idle
    /\ view = Idle /\ res = Idle
    /\ pm = Idle /\ piv = <<>> /\ pout = Idle
    /\ luIn = Idle /\ luFs = Idle /\ luOut = Idle
    /\ svdIn = Idle /\ svdOut = Idle
    /\ lsIn = Idle /\ lsOut = Idle /\ propIn = Idle /\ propOut = Idle
    /\ caller = qrIn

QRCompute ==
    /\ qrIn # Idle /\ qrFs = Idle
    /\ \E f \in QR_compute(qrIn) : qrFs' = f
    /\ caller' = borrowed_after(caller)
    /\ UNCHANGED <<qrIn, qrOut, layoutVars, permVars, luVars, svdVars, lsVars, propVars>>

QRRk ==
    /\ qrFs.tag = "Ok"
    /\ \E k \in 0..(Min(qrFs.m, qrFs.n) + 1) :
          qrOut' = [op |-> "rk", k |-> k, val |-> rk(qrFs, <<k>>)]
    /\ UNCHANGED <<qrIn, qrFs, layoutVars, permVars, luVars, svdVars, lsVars, propVars, caller>>

QRR ==
    /\ qrFs.tag = "Ok"
    /\ qrOut' = [op |-> "r", k |-> Min(qrFs.m, qrFs.n), val |-> r(qrFs)]
    /\ UNCHANGED <<qrIn, qrFs, layoutVars, permVars, luVars, svdVars, lsVars, propVars, caller>>

\* The numbers of columns asked of qk: every k up to one past the columns
\* of the packed matrix, the number of rows, and one past it.
QkArgs(m, n) == (0..Min(m, n + 1)) \cup {m, m + 1}

QRQk ==
    /\ qrFs.tag = "Ok"
    /\ \E k \in QkArgs(qrFs.m, qrFs.n) : \E v \in qk(qrFs, <<k>>) :
          qrOut' = [op |-> "qk", k |-> k, val |-> v,
                    call |-> orgqr_call(qrFs.mat, k, v)]
    /\ UNCHANGED <<qrIn, qrFs, layoutVars, permVars, luVars, svdVars, lsVars, propVars, caller>>

QRQ ==
    /\ qrFs.tag = "Ok"
    /\ \E v \in q(qrFs) :
          qrOut' = [op |-> "q", k |-> Min(qrFs.m, qrFs.n), val |-> v,
                    call |-> orgqr_call(qrFs.mat, Min(qrFs.m, qrFs.n), v)]
    /\ UNCHANGED <<qrIn, qrFs, layoutVars, permVars, luVars, svdVars, lsVars, propVars, caller>>

QRReconstruct ==
    /\ qrFs.tag = "Ok"
    /\ \E v \in QR_reconstruct(qrFs) :
          qrOut' = [op |-> "reconstruct", k |-> Min(qrFs.m, qrFs.n), val |-> v]
    /\ UNCHANGED <<qrIn, qrFs, layoutVars, permVars, luVars, svdVars, lsVars, propVars, caller>>

QRNext == QRCompute \/ QRRk \/ QRR \/ QRQk \/ QRQ \/ QRReconstruct

SpecQR == QRInit /\ [][QRNext]_vars

(***************************************************************************)
(* C10: for every k with 1 <= k <= min(m,n), rk(k) returns a k x n matrix  *)
(* whose entry (i,j) is 0 for j < i and packed[i][j] for j >= i, so that   *)
(* rk(k) is the first k rows of r().                                       *)
(***************************************************************************)
C10_UpperTrapezoid ==
    (qrOut # Idle /\ qrOut.op = "rk" /\ 1 <= qrOut.k
       /\ qrOut.k <= Min(qrFs.mat.m, qrFs.mat.n)) =>
        /\ qrOut.val.tag = "Ok"
        /\ LET R == qrOut.val.mat
           IN /\ R.m = qrOut.k /\ R.n = qrFs.mat.n
              /\ DOMAIN R.d = 1..R.m
              /\ \A i \in 1..R.m :
                   /\ DOMAIN R.d[i] = 1..R.n
                   /\ \A j \in 1..R.n :
                        R.d[i][j] = IF j < i THEN 0 ELSE qrFs.mat.d[i][j]
              /\ r(qrFs).tag = "Ok"
              /\ R.d = SubSeq(r(qrFs).mat.d, 1, qrOut.k)

\* rk(k) was taken with 1 < k < min(m,n) from a packed matrix that holds a
\* non-zero entry below the diagonal in its first k rows.
C10_Witness ==
    /\ qrOut # Idle /\ qrOut.op = "rk"
    /\ 1 < qrOut.k /\ qrOut.k < Min(qrFs.mat.m, qrFs.mat.n)
    /\ qrOut.val.tag = "Ok"
    /\ \E i \in 1..qrOut.k, j \in 1..qrFs.mat.n : j < i /\ qrFs.mat.d[i][j] # 0
    /\ \E i \in 1..qrOut.k, j \in 1..qrFs.mat.n : j >= i /\ qrFs.mat.d[i][j] # 0

(***************************************************************************)
(* The singular value decomposition (svd/general.rs).  The backend's       *)
(* xGESDD and xGESVD are called through LAPACKE; their arithmetic is not   *)
(* modelled, only their argument checks (the layout counts as the first    *)
(* argument) and their status: 0, or a positive status when the iteration  *)
(* did not converge, which no input rules out.                             *)
(***************************************************************************)
SVD_NORMAL_LIMIT == 200

SVDComputeVectors == {"Full", "Economic", "None"}

u_size(cv, m, n) ==
    IF cv = "Full" THEN <<m, m>>
    ELSE IF cv = "Economic" THEN <<m, Min(m, n)>>
    ELSE <<0, 0>>

vt_size(cv, m, n) ==
    IF cv = "Full" THEN <<n, n>>
    ELSE IF cv = "Economic" THEN <<Min(m, n), n>>
    ELSE <<0, 0>>

job_desc(cv) == IF cv = "Full" THEN "A" ELSE IF cv = "Economic" THEN "S" ELSE "N"

select_svd_method(m, n, cv) ==
    IF cv = "None" THEN "DivideAndConquer"
    ELSE IF Max(m, n) > SVD_NORMAL_LIMIT THEN "Normal"
    ELSE "DivideAndConquer"

\* The memory order of matrix_with_layout(d, layout).
matrix_with_layout(d, layout) ==
    [m |-> d[1], n |-> d[2], order |-> IF layout = "RowMajor" THEN "C" ELSE "F"]

\* as_slice_mut() gives the elements only of an array in standard (row-major)
\* order.  Whether an array that differs from it only along axes of length
\* at most one counts as standard depends on the ndarray release.
as_slice_mut(x) ==
    IF OwnedStrides(x.m, x.n, x.order) = OwnedStrides(x.m, x.n, "C") THEN {"Some"}
    ELSE IF x.m <= 1 \/ x.n <= 1 THEN {"Some", "None"}
    ELSE {"None"}

gesdd(layout, jobz, m, n, lda, ldu, ldvt) ==
    LET ncols_u == IF jobz = "A" THEN m ELSE IF jobz = "S" THEN Min(m, n) ELSE 1
        minvt == IF jobz = "A" THEN n ELSE IF jobz = "S" THEN Min(m, n) ELSE 1
    IN IF layout = "RowMajor" /\ lda < n THEN {0 - 6}
       ELSE IF layout = "ColumnMajor" /\ lda < Max(1, m) THEN {0 - 6}
       ELSE IF layout = "RowMajor" /\ ldu < ncols_u THEN {0 - 9}
       ELSE IF layout = "ColumnMajor" /\ (ldu < 1 \/ (jobz # "N" /\ ldu < m)) THEN {0 - 9}
       ELSE IF layout = "RowMajor" /\ ldvt < n THEN {0 - 11}
       ELSE IF layout = "ColumnMajor" /\ (ldvt < 1 \/ (jobz # "N" /\ ldvt < minvt))
         THEN {0 - 11}
       ELSE {0, 1}

\* xGESVD takes jobu and jobvt where xGESDD takes jobz: a's leading
\* dimension is its seventh argument, u's its tenth, vt's its twelfth.
gesvd(layout, jobu, jobvt, m, n, lda, ldu, ldvt) ==
    LET ncols_u == IF jobu = "A" THEN m ELSE IF jobu = "S" THEN Min(m, n) ELSE 1
        minvt == IF jobvt = "A" THEN n ELSE IF jobvt = "S" THEN Min(m, n) ELSE 1
    IN IF layout = "RowMajor" /\ lda < n THEN {0 - 7}
       ELSE IF layout = "ColumnMajor" /\ lda < Max(1, m) THEN {0 - 7}
       ELSE IF layout = "RowMajor" /\ ldu < ncols_u THEN {0 - 10}
       ELSE IF layout = "ColumnMajor" /\ (ldu < 1 \/ (jobu # "N" /\ ldu < m)) THEN {0 - 10}
       ELSE IF layout = "RowMajor" /\ ldvt < n THEN {0 - 12}
       ELSE IF layout = "ColumnMajor" /\ (ldvt < 1 \/ (jobvt # "N" /\ ldvt < minvt))
         THEN {0 - 12}
       ELSE {0, 1}

\* What compute_into does with the backend's status.
SVD_result(info, mat, cv, u0, vt0) ==
    IF info = 0
      THEN [tag |-> "Ok", info |-> info,
            values |-> Min(mat.m, mat.n),
            left_vectors |-> IF cv = "None" THEN <<>> ELSE <<u0>>,
            right_vectors |-> IF cv = "None" THEN <<>> ELSE <<vt0>>]
    ELSE IF info < 0
      THEN [tag |-> "Err", info |-> info, err |-> <<"IllegalParameter", (0 - info) - 1>>]
    ELSE [tag |-> "Err", info |-> info, err |-> <<"Unconverged">>]

\* The leading dimensions compute_into passes for U and for Vt.
SVD_leading_dimensions(m, n) == [ldu |-> m, ldvt |-> n]

\* Whether the backend, writing the matrix x with leading dimension ld in
\* the layout, stays within the elements allocated for x: ld covers the
\* minor count and the last element written lies in the allocation.
FitsAllocation(x, ld, layout) ==
    LET major == IF layout = "RowMajor" THEN x.m ELSE x.n
        minor == IF layout = "RowMajor" THEN x.n ELSE x.m
    IN ld >= minor /\ (major - 1) * ld + minor <= x.m * x.n

\* A backend that passes its argument checks writes U and Vt with the
\* leading dimensions it was given; what a write outside the allocation
\* does is not defined: the call may as well return as end the process.
SVD_compute_into(mat, cv) ==
    UNION {
        IF o.tag = "Panic" THEN {[tag |-> "Panic"]}
        ELSE IF o.tag = "None" THEN {[tag |-> "Err", err |-> <<"BadLayout">>]}
        ELSE LET method == select_svd_method(mat.m, mat.n, cv)
                 u0 == matrix_with_layout(u_size(cv, mat.m, mat.n), o.layout)
                 vt0 == matrix_with_layout(vt_size(cv, mat.m, mat.n), o.layout)
                 slices == as_slice_mut(u0) \X as_slice_mut(vt0)
                 ld == SVD_leading_dimensions(mat.m, mat.n)
                 infos == IF method = "Normal"
                            THEN gesvd(o.layout, job_desc(cv), job_desc(cv),
                                       mat.m, mat.n, o.ld, ld.ldu, ld.ldvt)
                            ELSE gesdd(o.layout, job_desc(cv),
                                       mat.m, mat.n, o.ld, ld.ldu, ld.ldvt)
                 overrun == /\ cv # "None"
                            /\ \E info \in infos : info >= 0
                            /\ \/ ~FitsAllocation(u0, ld.ldu, o.layout)
                               \/ ~FitsAllocation(vt0, ld.ldvt, o.layout)
             IN IF method = "Normal" /\ Min(mat.m, mat.n) - 2 < 0
                  THEN {[tag |-> "Panic"]}
                ELSE UNION {IF sl = <<"Some", "Some">>
                              THEN {SVD_result(info, mat, cv, u0, vt0) : info \in infos}
                                     \cup (IF overrun THEN {[tag |-> "Crash"]} ELSE {})
                              ELSE {[tag |-> "Panic"]}
                            : sl \in slices}
        : o \in slice_and_layout_mut(ViewOf(mat))}

\* SVD::compute(&mat) collects the elements into a new array in standard
\* order and decomposes that.
SVD_compute(mat, cv) == SVD_compute_into([mat EXCEPT !.order = "C"], cv)

SVDInit ==
    /\ \E sh \in Shapes, o \in Orders, cv \in SVDComputeVectors :
          svdIn = [mat |-> Linspace(sh[1], sh[2], o), cv |-> cv]
    /\ svdOut = Idle
    /\ lsIn = Idle /\ lsOut = Idle /\ propIn = Idle /\ propOut = Idle
    /\ view = Idle /\ res = Idle
    /\ pm = Idle /\ piv = <<>> /\ pout = Idle
    /\ luIn = Idle /\ luFs = Idle /\ luOut = Idle
    /\ qrIn = Idle /\ qrFs = Idle /\ qrOut = Idle
    /\ caller = Idle

SVDComputeInto ==
    /\ svdOut = Idle
    /\ \E o \in SVD_compute_into(svdIn.mat, svdIn.cv) :
          svdOut' = [op |-> "compute_into", val |-> o]
    /\ UNCHANGED <<svdIn, layoutVars, permVars, luVars, qrVars, caller, lsVars,
                   propVars>>

SVDCompute ==
    /\ svdOut = Idle
    /\ \E o \in SVD_compute(svdIn.mat, svdIn.cv) :
          svdOut' = [op |-> "compute", val |-> o]
    /\ UNCHANGED <<svdIn, layoutVars, permVars, luVars, qrVars, caller, lsVars,
                   propVars>>

SVDNext == SVDComputeInto \/ SVDCompute

SpecSVD == SVDInit /\ [][SVDNext]_vars

(***************************************************************************)
(* C15: IllegalParameter(i) is returned only on a negative backend status, *)
(* and then i is the status negated; a status >= 0 never gives             *)
(* IllegalParameter.  Stated here of the SVD's backend call.               *)
(***************************************************************************)
C15_IllegalParameterIsNegatedStatus ==
    (svdOut # Idle /\ svdOut.val.tag = "Err" /\ svdOut.val.err[1] = "IllegalParameter") =>
        /\ svdOut.val.info < 0
        /\ svdOut.val.err[2] = 0 - svdOut.val.info

(***************************************************************************)
(* C11: rk(k) returns Err(InconsistentDimensions) exactly when             *)
(* k > min(m,n); for every 0 <= k <= min(m,n) it returns Ok with a k x n   *)
(* matrix, empty when k = 0, and no slice it takes reaches outside the     *)
(* packed matrix or the output (it never panics).                          *)
(***************************************************************************)
C11_RkErrorExactly ==
    (qrOut # Idle /\ qrOut.op = "rk") =>
        LET k == qrOut.k
            nn == Min(qrFs.mat.m, qrFs.mat.n)
        IN /\ qrOut.val.tag # "Panic"
           /\ (qrOut.val.tag = "Err") <=> (k > nn)
           /\ qrOut.val.tag = "Err" => qrOut.val.err = <<"InconsistentDimensions">>
           /\ k <= nn =>
                 /\ qrOut.val.tag = "Ok"
                 /\ qrOut.val.mat.m = k /\ qrOut.val.mat.n = qrFs.mat.n
                 /\ DOMAIN qrOut.val.mat.d = 1..k
           /\ k = 0 => qrOut.val.mat.d = <<>>

\* rk(k) was asked of a tall matrix with cols < k <= rows and refused.
C11_Witness ==
    /\ qrOut # Idle /\ qrOut.op = "rk"
    /\ qrFs.mat.m > qrFs.mat.n
    /\ qrOut.k = qrFs.mat.n + 1 /\ qrOut.k <= qrFs.mat.m
    /\ qrOut.val.tag = "Err"

(***************************************************************************)
(* C12: for every k with 1 <= k <= m, columns beyond n included, qk(k)     *)
(* returns an m x k matrix or an error value and never aborts; it returns  *)
(* Err(InconsistentDimensions) exactly when k > m.                         *)
(***************************************************************************)
C12_QkAcceptsUpToRows ==
    (qrOut # Idle /\ qrOut.op = "qk" /\ qrOut.k >= 1) =>
        /\ qrOut.val.tag # "Panic"
        /\ (qrOut.val.tag = "Err" /\ qrOut.val.err = <<"InconsistentDimensions">>)
              <=> (qrOut.k > qrFs.mat.m)
        /\ qrOut.val.tag = "Ok" =>
              qrOut.val.mat.m = qrFs.mat.m /\ qrOut.val.mat.n = qrOut.k

(***************************************************************************)
(* C13: with no argument the factor size is min(m,n): q() is qk(min(m,n))  *)
(* and an m x min(m,n) matrix, r() is rk(min(m,n)) and a min(m,n) x n      *)
(* matrix, and q() . r() has the shape of the factored matrix, for every   *)
(* m, n >= 1.                                                              *)
(***************************************************************************)
C13_DefaultFactorSize ==
    LET nn == Min(qrIn.m, qrIn.n)
    IN /\ (qrOut # Idle /\ qrOut.op = "q") =>
             /\ qrOut.val \in qk(qrFs, <<nn>>)
             /\ qrOut.val.tag = "Ok"
             /\ qrOut.val.mat.m = qrIn.m /\ qrOut.val.mat.n = nn
             /\ r(qrFs).tag = "Ok"
             /\ dot(qrOut.val.mat, r(qrFs).mat).m = qrIn.m
             /\ dot(qrOut.val.mat, r(qrFs).mat).n = qrIn.n
             /\ qrOut.val.mat.n = r(qrFs).mat.m
       /\ (qrOut # Idle /\ qrOut.op = "r") =>
             /\ qrOut.val = rk(qrFs, <<nn>>)
             /\ qrOut.val.tag = "Ok"
             /\ qrOut.val.mat.m = nn /\ qrOut.val.mat.n = qrIn.n

\* q() was taken of a matrix with more rows than columns, and more than one
\* column.
C13_Witness ==
    /\ qrOut # Idle /\ qrOut.op = "q"
    /\ qrIn.m > qrIn.n /\ qrIn.n > 1
    /\ qrOut.val.tag = "Ok"
    /\ qrOut.val.mat.n = qrIn.n

(***************************************************************************)
(* C14: compute turns every backend status into a returned value: status   *)
(* 0 gives a factor set, a negative status IllegalParameter(-status), a    *)
(* positive status (an exactly singular matrix) the error variant          *)
(* Singular; compute never panics.                                         *)
(***************************************************************************)
C14_StatusReturned ==
    (luFs # Idle) =>
        /\ luFs.tag # "Panic"
        /\ \A o \in slice_and_layout_mut(ViewOf(luIn)) :
              o.tag = "Some" =>
                LET g == getrf(o.layout, luIn.m, luIn.n, luIn, o.ld, <<>>)
                IN /\ g.info = 0 => luFs.tag = "Ok"
                   /\ g.info < 0 =>
                         /\ luFs.tag = "Err"
                         /\ luFs.err = <<"IllegalParameter", 0 - g.info>>
                   /\ g.info > 0 =>
                         luFs.tag = "Err" /\ luFs.err = <<"Singular">>

(***************************************************************************)
(* C16: on a factor set whose packed matrix has rows # cols, inverse() and *)
(* inverse_into() return Err(NotSquare), before the packed matrix is       *)
(* copied and before any backend call.                                     *)
(***************************************************************************)
C16_NotSquareFirst ==
    (luOut # Idle /\ luOut.op \in {"inverse", "inverse_into"} /\ luIn.m # luIn.n) =>
        /\ luOut.val.tag = "Err" /\ luOut.val.err = <<"NotSquare">>
        /\ ~luOut.val.copied
        /\ luOut.val.calls = 0

\* inverse() was asked of a factor set with more columns than rows.
C16_Witness ==
    /\ luOut # Idle /\ luOut.op = "inverse"
    /\ luFs.tag = "Ok" /\ luFs.mat.m < luFs.mat.n
    /\ luOut.val.tag = "Err"

(***************************************************************************)
(* C17: on square factors, when the backend's inversion reports a positive *)
(* status, the inverse operations return Err(Singular) and no matrix.      *)
(***************************************************************************)
C17_SingularReturned ==
    (luOut # Idle /\ luOut.op \in {"inverse", "inverse_into", "compute_inverse"}
       /\ luIn.m = luIn.n /\ luOut.val.calls = 1 /\ luOut.val.info > 0) =>
        /\ luOut.val.tag = "Err"
        /\ luOut.val.err = <<"Singular">>

(***************************************************************************)
(* Specification of the factor sets with their callers: a matrix is drawn, *)
(* contiguous or not, and factored through compute (borrowed) or           *)
(* compute_into (consumed); the factor set is queried in any order, and    *)
(* the caller may write to the matrix it still owns.                       *)
(***************************************************************************)
InputOrders == Orders \cup {"Strided"}

FactorsInit ==
    /\ \E sh \in FrameShapes, o \in InputOrders :
          \/ /\ luIn \in {a \in AllMatrices(sh[1], sh[2], o) : Factorize(a).exact}
             /\ qrIn = Idle
             /\ caller = luIn
          \/ /\ qrIn = Linspace(sh[1], sh[2], o)
             /\ luIn = Idle
             /\ caller = qrIn
    /\ luFs = Idle /\ luOut = Idle
    /\ qrFs = Idle /\ qrOut = Idle
    /\ view = Idle /\ res = Idle
    /\ pm = Idle /\ piv = <<>> /\ pout = Idle
    /\ svdIn = Idle /\ svdOut = Idle
    /\ lsIn = Idle /\ lsOut = Idle /\ propIn = Idle /\ propOut = Idle

LUComputeInto ==
    /\ luIn # Idle /\ luFs = Idle /\ caller = luIn
    /\ \E f \in LU_compute_into(luIn) : luFs' = f
    /\ caller' = Moved
    /\ UNCHANGED <<luIn, luOut, layoutVars, permVars, qrVars, svdVars, lsVars, propVars>>

QRComputeInto ==
    /\ qrIn # Idle /\ qrFs = Idle /\ caller = qrIn
    /\ \E f \in QR_compute_into(qrIn) : qrFs' = f
    /\ caller' = Moved
    /\ UNCHANGED <<qrIn, qrOut, layoutVars, permVars, luVars, svdVars, lsVars, propVars>>

\* The caller writes an element of the matrix it lent to compute.
CallerWrites ==
    /\ luFs # Idle \/ qrFs # Idle
    /\ caller # Moved
    /\ caller = luIn \/ caller = qrIn
    /\ caller' = [caller EXCEPT !.d[1][1] = @ + 1]
    /\ UNCHANGED <<layoutVars, permVars, luVars, qrVars, svdVars, lsVars, propVars>>

FactorsNext ==
    \/ LUCompute \/ LUComputeInto \/ LUL \/ LUU \/ LUPerm
    \/ LUReconstruct \/ LUInverse \/ LUInverseInto
    \/ QRCompute \/ QRComputeInto \/ QRQk \/ QRQ \/ QRRk \/ QRR
    \/ CallerWrites

SpecFactors == FactorsInit /\ [][FactorsNext]_vars

(***************************************************************************)
(* C18: once a factor set exists, l(), u(), perm(), reconstruct(),         *)
(* inverse() and qk(), rk(), q(), r() leave the packed matrix, the pivots  *)
(* or tau and the stored dimensions as they are, and a call repeated with  *)
(* the same argument returns an equal result.                              *)
(***************************************************************************)
C18_FrameStep ==
    /\ luFs.tag = "Ok" =>
          \/ luFs' = luFs
          \/ luFs' = Moved /\ luOut'.op = "inverse_into"
    /\ qrFs.tag = "Ok" => qrFs' = qrFs
    /\ (luFs.tag = "Ok" /\ luFs' = luFs /\ luOut # Idle /\ luOut' # Idle
          /\ luOut'.op = luOut.op
          /\ luOut.val.tag # "Panic" /\ luOut'.val.tag # "Panic")
         => luOut'.val = luOut.val
    /\ (qrFs.tag = "Ok" /\ qrOut # Idle /\ qrOut' # Idle
          /\ qrOut'.op = qrOut.op /\ qrOut'.k = qrOut.k
          /\ qrOut.val.tag # "Panic" /\ qrOut'.val.tag # "Panic")
         => qrOut'.val = qrOut.val

Rejected(a) == \A o \in slice_and_layout_mut(ViewOf(a)) : o.tag = "None"

\* The array compute_into was called on: the caller's own when it was
\* moved in, else the copy compute took.
Given(a) == IF caller = Moved THEN a ELSE to_owned(a)

C19_BadLayoutBeforeBackend ==
    /\ (luFs # Idle /\ luFs # Moved) =>
          /\ Rejected(Given(luIn)) =>
                /\ luFs.tag = "Err" /\ luFs.err = <<"BadLayout">>
                /\ luFs.calls = 0
          /\ luFs.tag = "Ok" =>
                /\ luFs.calls = 1
                /\ \E o \in slice_and_layout_mut(ViewOf(Given(luIn))) :
                      /\ o.tag = "Some"
                      /\ LET g == getrf(o.layout, luIn.m, luIn.n, Given(luIn), o.ld, <<>>)
                         IN /\ g.info = 0
                            /\ luFs.mat = g.mat /\ luFs.perm = from_ipiv(g.ipiv)
                            /\ ~Rejected(g.mat)
    /\ (qrFs # Idle) =>
          /\ Rejected(Given(qrIn)) =>
                /\ qrFs.tag = "Err" /\ qrFs.err = <<"BadLayout">>
                /\ qrFs.calls = 0
          /\ qrFs.tag = "Ok" =>
                /\ qrFs.calls = 1
                /\ \E o \in slice_and_layout_mut(ViewOf(Given(qrIn))) :
                      /\ o.tag = "Some"
                      /\ \E g \in geqrf(o.layout, qrIn.m, qrIn.n, Given(qrIn), o.ld, <<>>) :
                            /\ g.info = 0
                            /\ qrFs.mat = g.mat /\ qrFs.tau = g.tau
                            /\ ~Rejected(g.mat)

\* compute_into was given an array that is not contiguous and refused it.
C19_Witness ==
    /\ luFs # Idle /\ luFs.tag = "Err" /\ luFs.err = <<"BadLayout">>
    /\ caller = Moved
    /\ luIn.order = "Strided" /\ luIn.m = 2 /\ luIn.n = 2

(***************************************************************************)
(* C20: compute on a borrowed matrix leaves every element of the caller's  *)
(* matrix as it was, and the factor set has its own packed storage: after  *)
(* the caller writes to its matrix the factor set, and with it l(), u(),   *)
(* qk(), rk() and reconstruct(), is still that of the matrix it was        *)
(* computed from.                                                          *)
(***************************************************************************)
C20_ComputeStep ==
    /\ (luFs = Idle /\ luFs' # Idle /\ caller' # Moved) => caller' = caller
    /\ (qrFs = Idle /\ qrFs' # Idle /\ caller' # Moved) => caller' = caller
    /\ (caller' # caller /\ luFs.tag = "Ok") =>
          /\ luFs' = luFs
          /\ l(luFs') = l(luFs) /\ u(luFs') = u(luFs)
          /\ reconstruct(luFs') = reconstruct(luFs)
    /\ (caller' # caller /\ qrFs.tag = "Ok") =>
          /\ qrFs' = qrFs
          /\ \A k \in 0..qrFs.m :
                qk(qrFs', <<k>>) = qk(qrFs, <<k>>) /\ rk(qrFs', <<k>>) = rk(qrFs, <<k>>)

C20_OwnStorage ==
    (luFs.tag = "Ok" => luFs \in LU_compute(luIn) \cup LU_compute_into(luIn))
    /\ (qrFs.tag = "Ok" => qrFs \in QR_compute(qrIn) \cup QR_compute_into(qrIn))

IsPositiveDiagonal(a) ==
    /\ a.m = a.n
    /\ \A i \in 1..a.m : \A j \in 1..a.n :
          IF i = j THEN a.d[i][j] > 0 ELSE a.d[i][j] = 0

C21_DiagonalLU ==
    (luIn # Idle /\ IsPositiveDiagonal(luIn)) =>
        /\ luFs.tag \notin {"Idle", "Moved"} => luFs.tag = "Ok"
        /\ (luOut # Idle /\ luOut.op = "l") =>
              luOut.val.mat.d = Eye(luIn.m, luIn.n).d
        /\ (luOut # Idle /\ luOut.op = "reconstruct") =>
              (luOut.val.tag = "Value" /\ luOut.val.mat.d = luIn.d)

C21_Witness ==
    /\ luIn = diag(<<1, 2, 3>>, "C")
    /\ luFs # Idle /\ luFs.tag = "Ok"
    /\ luOut # Idle /\ luOut.op = "reconstruct"
    /\ luOut.val.tag = "Value" /\ luOut.val.mat.d = luIn.d
    /\ l(luFs).d = Eye(3, 3).d

(***************************************************************************)
(* C22 as stated: for A = [[1,0,0],[2,2,2],[0,0,3]] the LU factorization   *)
(* needs no row exchange, u() has the diagonal [1,2,3] and reconstruct()   *)
(* equals A exactly.                                                       *)
(***************************************************************************)
IsScenarioA == luIn # Idle /\ luIn.d = ScenarioA("C").d

C22_ScenarioNoExchange ==
    IsScenarioA =>
        /\ (luFs # Idle /\ luFs.tag = "Ok") =>
              /\ luFs.perm.ipiv = <<1, 2, 3>>
              /\ [i \in 1..3 |-> u(luFs).d[i][i]] = <<1, 2, 3>>
        /\ (luOut # Idle /\ luOut.op = "reconstruct") =>
              (luOut.val.tag = "Value" /\ luOut.val.mat.d = luIn.d)

(***************************************************************************)
(* C22 amended: for A = [[1,0,0],[2,2,2],[0,0,3]] the LU factorization     *)
(* succeeds and exchanges rows 1 and 2 (pivots [2,2,3], one-based), l()    *)
(* holds the multiplier 1/2 at row 2, column 1, u() has the diagonal       *)
(* [2,-1,3] and reconstruct() equals A exactly.                            *)
(***************************************************************************)
C22_ScenarioPivoted ==
    IsScenarioA =>
        /\ luFs.tag \notin {"Idle", "Moved"} =>
              /\ luFs.tag = "Ok"
              /\ luFs.perm.ipiv = <<2, 2, 3>>
              /\ l(luFs).d[2][1] = Rat(1, 2)
              /\ [i \in 1..3 |-> u(luFs).d[i][i]] = <<2, 0 - 1, 3>>
        /\ (luOut # Idle /\ luOut.op = "reconstruct") =>
              (luOut.val.tag = "Value" /\ luOut.val.mat.d = luIn.d)

C22_Witness ==
    /\ IsScenarioA
    /\ luFs # Idle /\ luFs.tag = "Ok"
    /\ u(luFs).d = <<<<2, 2, 2>>, <<0, 0 - 1, 0 - 1>>, <<0, 0, 3>>>>
    /\ luOut # Idle /\ luOut.op = "reconstruct"
    /\ luOut.val.tag = "Value" /\ luOut.val.mat.d = luIn.d

(***************************************************************************)
(* The QR factor set on the matrices the backend factors in rational       *)
(* arithmetic, where the products are exact: once a factor set exists,     *)
(* reconstruct() returns q(min) . r(min), which is the factored matrix,    *)
(* and so is the product of q() and r().                                   *)
(***************************************************************************)
QRFactored == qrFs # Idle /\ qrFs.tag = "Ok" /\ geqr2(qrIn).exact

QRContract ==
    /\ (QRFactored /\ qrOut # Idle /\ qrOut.op = "reconstruct") =>
          /\ qrOut.val.tag = "Value"
          /\ qrOut.val.mat.d = qrIn.d
          /\ \E v \in qk(qrFs, <<Min(qrIn.m, qrIn.n)>>) :
                v.tag = "Ok" /\ qrOut.val.mat =
                    dot(v.mat, rk(qrFs, <<Min(qrIn.m, qrIn.n)>>).mat)
    /\ (QRFactored /\ qrOut # Idle /\ qrOut.op = "q") =>
          /\ qrOut.val.tag = "Ok"
          /\ r(qrFs).tag = "Ok"
          /\ dot(qrOut.val.mat, r(qrFs).mat).d = qrIn.d

(***************************************************************************)
(* C23: for every matrix A, the QR factorization of A gives a factor set   *)
(* whose reconstruct() returns q(min(rows, cols)) . r(min(rows, cols)),    *)
(* and this product equals A, as does the product of q() and r().          *)
(***************************************************************************)
C23_QRReconstruct ==
    /\ (qrIn # Idle /\ qrFs # Idle /\ geqr2(qrIn).exact) => qrFs.tag = "Ok"
    /\ QRContract

(***************************************************************************)
(* slice_and_layout_matching_mut: the slice and leading dimension of a     *)
(* second matrix, to go with the layout resolved for the first.  A matrix  *)
(* of one column takes the shortcut: its row stride is the leading         *)
(* dimension whatever its sign (cast to usize for the slice length) and    *)
(* whatever the layout.                                                    *)
(***************************************************************************)
SomeMatching(c, ld) ==
    IF c.tag = "Panic" THEN [tag |-> "Panic"]
    ELSE [tag |-> "Some", ld |-> ld, nelem |-> c.nelem]

slice_and_layout_matching_mut(v, layout) ==
    IF v.cols = 1
      THEN {SomeMatching(c, v.s0) : c \in NelemOutcomes(v.rows, v.s0 % UsizeMod, v.cols)}
    ELSE {IF o.tag = "Some"
            THEN IF o.layout = layout THEN [tag |-> "Some", ld |-> o.ld, nelem |-> o.nelem]
                 ELSE [tag |-> "None"]
          ELSE o
          : o \in slice_and_layout_mut(v)}

(***************************************************************************)
(* The backend's least squares drivers, called through LAPACKE with the    *)
(* right-hand sides b of the caller, which hold brows rows.  xGELS solves  *)
(* with a QR or LQ factorization and reports in a positive status the      *)
(* zero diagonal entry of a rank-deficient matrix; xGELSD solves with the  *)
(* singular value decomposition, reports the rank and returns a positive   *)
(* status when the decomposition does not converge.  Both take b as a      *)
(* matrix of max(m, n) rows: in row-major layout the interface copies that *)
(* many rows out of b and back, which is undefined behaviour when b holds  *)
(* fewer.  Arguments are numbered with the layout as the first.  The       *)
(* solution itself is not modelled.                                        *)
(***************************************************************************)
gels(layout, m, n, nrhs, lda, ldb, brows) ==
    IF layout = "RowMajor" /\ lda < n THEN {[tag |-> "Info", info |-> 0 - 7]}
    ELSE IF layout = "RowMajor" /\ ldb < nrhs THEN {[tag |-> "Info", info |-> 0 - 9]}
    ELSE IF layout = "ColumnMajor" /\ lda < Max(1, m)
      THEN {[tag |-> "Info", info |-> 0 - 7]}
    ELSE IF layout = "ColumnMajor" /\ ldb < Max(1, Max(m, n))
      THEN {[tag |-> "Info", info |-> 0 - 9]}
    ELSE {[tag |-> "Info", info |-> i] : i \in 0..Min(m, n)}
           \cup (IF layout = "RowMajor" /\ brows < Max(m, n)
                   THEN {[tag |-> "Crash"]} ELSE {})

gelsd(layout, m, n, nrhs, lda, ldb, brows) ==
    IF layout = "RowMajor" /\ lda < n THEN {[tag |-> "Info", info |-> 0 - 6]}
    ELSE IF layout = "RowMajor" /\ ldb < nrhs THEN {[tag |-> "Info", info |-> 0 - 8]}
    ELSE IF layout = "ColumnMajor" /\ lda < Max(1, m)
      THEN {[tag |-> "Info", info |-> 0 - 6]}
    ELSE IF layout = "ColumnMajor" /\ ldb < Max(1, Max(m, n))
      THEN {[tag |-> "Info", info |-> 0 - 8]}
    ELSE {[tag |-> "Info", info |-> i, rank |-> k] : i \in 0..1, k \in 0..Min(m, n)}
           \cup (IF layout = "RowMajor" /\ brows < Max(m, n)
                   THEN {[tag |-> "Crash"]} ELSE {})

(***************************************************************************)
(* LeastSquares.  A solution is held by its shape and the reported rank.   *)
(***************************************************************************)
\* resize_solution(b_sol, n): the first n rows of b_sol, or b_sol extended
\* to n rows.
resize_solution(b, n) == [m |-> n, n |-> b.n]

compute_multi_full_into(a, b) ==
    IF a.m # b.m
      THEN {[tag |-> "Err", err |-> <<"InconsistentDimensions", a.m, b.m>>]}
    ELSE UNION {
        IF ra.tag = "Panic" THEN {[tag |-> "Panic"]}
        ELSE IF ra.tag = "None" THEN {[tag |-> "Err", err |-> <<"BadLayout">>]}
        ELSE UNION {
            IF rb.tag = "Panic" THEN {[tag |-> "Panic"]}
            ELSE IF rb.tag = "None"
              THEN {[tag |-> "Err", err |-> <<"InconsistentLayout">>]}
            ELSE {IF g.tag = "Crash" THEN [tag |-> "Crash"]
                  ELSE IF g.info = 0
                    THEN [tag |-> "Ok", solution |-> resize_solution(b, a.n),
                          rank |-> Min(a.m, a.n)]
                  ELSE IF g.info < 0
                    THEN [tag |-> "Err", err |-> <<"IllegalParameter", 0 - g.info>>]
                  ELSE [tag |-> "Err", err |-> <<"Degenerate">>]
                  : g \in gels(ra.layout, a.m, a.n, b.n, ra.ld, rb.ld, b.m)}
            : rb \in slice_and_layout_matching_mut(ViewOf(b), ra.layout)}
        : ra \in slice_and_layout_mut(ViewOf(a))}

compute_multi_full(a, b) == compute_multi_full_into(to_owned(a), to_owned(b))

compute_multi_degenerate_into(a, b) ==
    IF a.m # b.m
      THEN {[tag |-> "Err", err |-> <<"InconsistentDimensions", a.m, b.m>>]}
    ELSE UNION {
        IF ra.tag = "Panic" THEN {[tag |-> "Panic"]}
        ELSE IF ra.tag = "None" THEN {[tag |-> "Err", err |-> <<"BadLayout">>]}
        ELSE UNION {
            IF rb.tag = "Panic" THEN {[tag |-> "Panic"]}
            ELSE IF rb.tag = "None"
              THEN {[tag |-> "Err", err |-> <<"InconsistentLayout">>]}
            ELSE {IF g.tag = "Crash" THEN [tag |-> "Crash"]
                  ELSE IF g.info = 0
                    THEN [tag |-> "Ok", solution |-> resize_solution(b, a.n),
                          rank |-> g.rank]
                  ELSE IF g.info < 0
                    THEN [tag |-> "Err", err |-> <<"IllegalParameter", 0 - g.info>>]
                  ELSE [tag |-> "Panic"]
                  : g \in gelsd(ra.layout, a.m, a.n, b.n, ra.ld, rb.ld, b.m)}
            : rb \in slice_and_layout_matching_mut(ViewOf(b), ra.layout)}
        : ra \in slice_and_layout_mut(ViewOf(a))}

compute_multi_degenerate(a, b) ==
    compute_multi_degenerate_into(to_owned(a), to_owned(b))

Degenerate == [tag |-> "Err", err |-> <<"Degenerate">>]

\* A plausible slip: the result of compute_multi_full forwarded as it is.
compute_multi_forwarding(a, b) ==
    {[val |-> x, full |-> x, ran |-> <<"full">>] : x \in compute_multi_full(a, b)}

\* Each outcome records the result of compute_multi_full and the functions
\* that ran.
compute_multi(a, b) ==
    UNION {
        IF x = Degenerate
          THEN {[val |-> y, full |-> x, ran |-> <<"full", "degenerate">>] :
                  y \in compute_multi_degenerate(a, b)}
        ELSE {[val |-> x, full |-> x, ran |-> <<"full">>]}
        : x \in compute_multi_full(a, b)}

\* compute(a, b) for a vector b of len elements: b becomes a matrix of one
\* column, and the solution is reshaped to len elements.
LS_compute(a, len) ==
    {IF o.val.tag # "Ok" THEN o
     ELSE IF o.val.solution.m * o.val.solution.n # len
       THEN [o EXCEPT !.val = [tag |-> "Panic"]]
     ELSE [o EXCEPT !.val.solution = [len |-> len]]
     : o \in compute_multi(a, [m |-> len, n |-> 1, order |-> "C"])}

(***************************************************************************)
(* Specification of the least squares entry points: a coefficient matrix   *)
(* and right-hand sides are drawn and one entry point is called.           *)
(***************************************************************************)
LSInit ==
    /\ \E sa \in FrameShapes, sb \in FrameShapes, oa \in InputOrders, ob \in Orders :
          lsIn = [a |-> [m |-> sa[1], n |-> sa[2], order |-> oa],
                  b |-> [m |-> sb[1], n |-> sb[2], order |-> ob]]
    /\ lsOut = Idle
    /\ propIn = Idle /\ propOut = Idle
    /\ view = Idle /\ res = Idle
    /\ pm = Idle /\ piv = <<>> /\ pout = Idle
    /\ luIn = Idle /\ luFs = Idle /\ luOut = Idle
    /\ qrIn = Idle /\ qrFs = Idle /\ qrOut = Idle
    /\ svdIn = Idle /\ svdOut = Idle
    /\ caller = Idle

LSComputeMultiFull ==
    /\ \E x \in compute_multi_full(lsIn.a, lsIn.b) :
          lsOut' = [op |-> "compute_multi_full", val |-> x]
    /\ UNCHANGED <<lsIn, layoutVars, permVars, luVars, qrVars, svdVars, propVars, caller>>

LSComputeMultiDegenerate ==
    /\ \E x \in compute_multi_degenerate(lsIn.a, lsIn.b) :
          lsOut' = [op |-> "compute_multi_degenerate", val |-> x]
    /\ UNCHANGED <<lsIn, layoutVars, permVars, luVars, qrVars, svdVars, propVars, caller>>

LSComputeMulti ==
    /\ \E o \in compute_multi(lsIn.a, lsIn.b) :
          lsOut' = [op |-> "compute_multi", val |-> o.val, full |-> o.full,
                    ran |-> o.ran]
    /\ UNCHANGED <<lsIn, layoutVars, permVars, luVars, qrVars, svdVars, propVars, caller>>

LSCompute ==
    /\ lsIn.b.n = 1
    /\ \E o \in LS_compute(lsIn.a, lsIn.b.m) :
          lsOut' = [op |-> "compute", val |-> o.val, full |-> o.full, ran |-> o.ran]
    /\ UNCHANGED <<lsIn, layoutVars, permVars, luVars, qrVars, svdVars, propVars, caller>>

LSNext == LSComputeMultiFull \/ LSComputeMultiDegenerate \/ LSComputeMulti \/ LSCompute

SpecLS == LSInit /\ [][LSNext]_vars

(***************************************************************************)
(* C24: compute_multi, and compute, which delegates to it, never return    *)
(* LeastSquaresError::Degenerate: compute_multi_full runs first,           *)
(* compute_multi_degenerate runs only when that returned Degenerate, and   *)
(* every other result of compute_multi_full is forwarded unchanged.        *)
(***************************************************************************)
C24_NeverDegenerate ==
    (lsOut # Idle /\ lsOut.op \in {"compute_multi", "compute"}) =>
        /\ lsOut.val # Degenerate
        /\ lsOut.ran[1] = "full"
        /\ ("degenerate" \in {lsOut.ran[i] : i \in DOMAIN lsOut.ran})
              <=> (lsOut.full = Degenerate)
        /\ lsOut.full \in compute_multi_full(lsIn.a,
              IF lsOut.op = "compute" THEN [lsIn.b EXCEPT !.order = "C"] ELSE lsIn.b)
        /\ (lsOut.full # Degenerate /\ lsOut.op = "compute_multi") =>
              lsOut.val = lsOut.full
        /\ (lsOut.full # Degenerate /\ lsOut.op = "compute"
              /\ lsOut.full.tag # "Ok") => lsOut.val = lsOut.full

\* compute_multi_full can return Degenerate for the drawn matrices, and
\* compute_multi returned a solution after falling back.
C24_Witness ==
    /\ lsOut # Idle /\ lsOut.op = "compute_multi"
    /\ Degenerate \in compute_multi_full(lsIn.a, lsIn.b)
    /\ lsOut.full = Degenerate
    /\ lsOut.ran = <<"full", "degenerate">>
    /\ lsOut.val.tag = "Ok"

(***************************************************************************)
(* Matrix properties: the bandwidths.  dim.0 - 1 and dim.1 - 1 are usize   *)
(* subtractions: on zero a checked build panics and an unchecked build     *)
(* wraps.  Indexing outside the matrix panics.  The scan of a diagonal     *)
(* answers "Continue" when no entry of it is above the tolerance.          *)
(***************************************************************************)
UsizeDecrement(k) ==
    IF k = 0 THEN {[tag |-> "Panic"], [tag |-> "Count", val |-> UsizeMod - 1]}
    ELSE {[tag |-> "Count", val |-> k - 1]}

\* for i in 0..cmp::min(b+1, dim.1) { mat[[r - b + i, i]] ... return r - b }
RECURSIVE LowerDiagonal(_, _, _, _, _)
LowerDiagonal(mat, t, last, b, i) ==
    IF i >= Min(b + 1, mat.n) THEN [tag |-> "Continue"]
    ELSE IF last - b + i >= mat.m \/ i >= mat.n THEN [tag |-> "Panic"]
    ELSE IF Abs(mat.d[last - b + i + 1][i + 1]) > t
      THEN [tag |-> "Value", val |-> last - b]
    ELSE LowerDiagonal(mat, t, last, b, i + 1)

\* for b in 0..r { ... } 0: the first diagonal whose scan ends the loop
\* decides; 0 when there is none.
LowerScan(mat, t, last) ==
    LET ends == {b \in 0..(last - 1) :
                   LowerDiagonal(mat, t, last, b, 0).tag # "Continue"}
    IN IF ends = {} THEN [tag |-> "Value", val |-> 0]
       ELSE LowerDiagonal(mat, t, last,
                          CHOOSE b \in ends : \A other \in ends : b <= other, 0)

get_lower_bandwidth_tol(mat, tol) ==
    {IF c.tag = "Panic" THEN [tag |-> "Panic"] ELSE LowerScan(mat, tol, c.val)
     : c \in UsizeDecrement(mat.m)}

\* for i in 0..cmp::min(b+1, dim.0) { mat[[i, c - b + i]] ... return c - b }
RECURSIVE UpperDiagonal(_, _, _, _, _)
UpperDiagonal(mat, t, last, b, i) ==
    IF i >= Min(b + 1, mat.m) THEN [tag |-> "Continue"]
    ELSE IF i >= mat.m \/ last - b + i >= mat.n THEN [tag |-> "Panic"]
    ELSE IF Abs(mat.d[i + 1][last - b + i + 1]) > t
      THEN [tag |-> "Value", val |-> last - b]
    ELSE UpperDiagonal(mat, t, last, b, i + 1)

UpperScan(mat, t, last) ==
    LET ends == {b \in 0..(last - 1) :
                   UpperDiagonal(mat, t, last, b, 0).tag # "Continue"}
    IN IF ends = {} THEN [tag |-> "Value", val |-> 0]
       ELSE UpperDiagonal(mat, t, last,
                          CHOOSE b \in ends : \A other \in ends : b <= other, 0)

get_upper_bandwidth_tol(mat, tol) ==
    {IF c.tag = "Panic" THEN [tag |-> "Panic"] ELSE UpperScan(mat, tol, c.val)
     : c \in UsizeDecrement(mat.n)}

(***************************************************************************)
(* Specification of the bandwidth queries: a matrix, possibly of no rows   *)
(* or no columns, and a tolerance are drawn and a bandwidth is asked.      *)
(***************************************************************************)
PropShapes == {sh \in (0..MaxBase) \X (0..MaxBase) : sh[1] * sh[2] <= MaxElems}

PropInit ==
    /\ \E sh \in PropShapes, t \in Scalars :
          \E a \in AllMatrices(sh[1], sh[2], "C") : propIn = [mat |-> a, tol |-> t]
    /\ propOut = Idle
    /\ lsIn = Idle /\ lsOut = Idle
    /\ view = Idle /\ res = Idle
    /\ pm = Idle /\ piv = <<>> /\ pout = Idle
    /\ luIn = Idle /\ luFs = Idle /\ luOut = Idle
    /\ qrIn = Idle /\ qrFs = Idle /\ qrOut = Idle
    /\ svdIn = Idle /\ svdOut = Idle
    /\ caller = Idle

GetLowerBandwidthTol ==
    /\ \E o \in get_lower_bandwidth_tol(propIn.mat, propIn.tol) :
          propOut' = [op |-> "get_lower_bandwidth_tol", val |-> o]
    /\ UNCHANGED <<propIn, layoutVars, permVars, luVars, qrVars, svdVars, lsVars, caller>>

GetUpperBandwidthTol ==
    /\ \E o \in get_upper_bandwidth_tol(propIn.mat, propIn.tol) :
          propOut' = [op |-> "get_upper_bandwidth_tol", val |-> o]
    /\ UNCHANGED <<propIn, layoutVars, permVars, luVars, qrVars, svdVars, lsVars, caller>>

PropNext == GetLowerBandwidthTol \/ GetUpperBandwidthTol

SpecProps == PropInit /\ [][PropNext]_vars

\* On a matrix with at least one row and one column the queries return the
\* largest distance below (above) the diagonal of an entry above the
\* tolerance, and 0 when there is none.
BandwidthOfNonEmpty ==
    (propOut # Idle /\ propIn.mat.m >= 1 /\ propIn.mat.n >= 1) =>
        /\ propOut.val.tag = "Value"
        /\ LET far == {IF propOut.op = "get_lower_bandwidth_tol"
                         THEN ij[1] - ij[2] ELSE ij[2] - ij[1] :
                       ij \in {p \in (1..propIn.mat.m) \X (1..propIn.mat.n) :
                                 Abs(propIn.mat.d[p[1]][p[2]]) > propIn.tol}}
           IN propOut.val.val = IF \E k \in far : k > 0
                                  THEN CHOOSE k \in far : \A j \in far : j <= k
                                  ELSE 0

(***************************************************************************)
(* C25: get_lower_bandwidth_tol and get_upper_bandwidth_tol return 0 for   *)
(* every matrix with no rows or no columns, without arithmetic underflow   *)
(* and without indexing out of range.                                      *)
(***************************************************************************)
C25_ZeroDimensionBandwidth ==
    (propOut # Idle /\ (propIn.mat.m = 0 \/ propIn.mat.n = 0)) =>
        propOut.val = [tag |-> "Value", val |-> 0]

(***************************************************************************)
(* C26: whenever the resolver accepts a view, the leading dimension it     *)
(* returns is legal for the backend: at least max(1, cols) with RowMajor   *)
(* and at least max(1, rows) with ColumnMajor, for every shape and every   *)
(* pair of non-negative strides, strides (1,1) on a matrix of one row and  *)
(* several columns included.                                               *)
(***************************************************************************)
C26_LeadingDimensionLegal ==
    (res # Idle /\ res.tag = "Some") =>
        /\ res.layout = "RowMajor" => res.ld >= Max(1, view.cols)
        /\ res.layout = "ColumnMajor" => res.ld >= Max(1, view.rows)

(***************************************************************************)
(* The resolver family.  The crate holds three copies of the layout        *)
(* resolver (util/internal.rs, matrix.rs, util.rs) and the matching        *)
(* resolver used for right-hand sides.  A view is drawn, then any of the   *)
(* four is applied to it; res records which one ran, the layout that was   *)
(* requested of the matching resolver, and the outcome.                    *)
(***************************************************************************)
Layouts == {"RowMajor", "ColumnMajor"}

\* The copy in matrix.rs: its second branch tests the row stride against 0.
matrix_slice_and_layout_mut(v) ==
    IF v.s0 < 0 \/ v.s1 < 0 THEN {[tag |-> "None"]}
    ELSE IF v.s1 = 1
      THEN {SomeLayout(c, "RowMajor", v.s0) : c \in NelemOutcomes(v.rows, v.s0, v.cols)}
    ELSE IF v.s0 = 0
      THEN {SomeLayout(c, "ColumnMajor", v.s1) : c \in NelemOutcomes(v.cols, v.s1, v.rows)}
    ELSE {[tag |-> "None"]}

\* The copy in util.rs, line for line the one of matrix.rs.
util_slice_and_layout_mut(v) ==
    IF v.s0 < 0 \/ v.s1 < 0 THEN {[tag |-> "None"]}
    ELSE IF v.s1 = 1
      THEN {SomeLayout(c, "RowMajor", v.s0) : c \in NelemOutcomes(v.rows, v.s0, v.cols)}
    ELSE IF v.s0 = 0
      THEN {SomeLayout(c, "ColumnMajor", v.s1) : c \in NelemOutcomes(v.cols, v.s1, v.rows)}
    ELSE {[tag |-> "None"]}

ResolversInit ==
    /\ view \in Views(MaxBase)
    /\ res = Idle
    /\ pm = Idle /\ piv = <<>> /\ pout = Idle
    /\ luIn = Idle /\ luFs = Idle /\ luOut = Idle
    /\ qrIn = Idle /\ qrFs = Idle /\ qrOut = Idle
    /\ svdIn = Idle /\ svdOut = Idle
    /\ lsIn = Idle /\ lsOut = Idle /\ propIn = Idle /\ propOut = Idle
    /\ caller = Idle

ResolveInternal ==
    /\ \E o \in slice_and_layout_mut(view) :
          res' = [op |-> "internal", layout |-> "Any", val |-> o]
    /\ UNCHANGED <<view, permVars, luVars, qrVars, svdVars, lsVars, propVars, caller>>

ResolveMatrix ==
    /\ \E o \in matrix_slice_and_layout_mut(view) :
          res' = [op |-> "matrix", layout |-> "Any", val |-> o]
    /\ UNCHANGED <<view, permVars, luVars, qrVars, svdVars, lsVars, propVars, caller>>

ResolveUtil ==
    /\ \E o \in util_slice_and_layout_mut(view) :
          res' = [op |-> "util", layout |-> "Any", val |-> o]
    /\ UNCHANGED <<view, permVars, luVars, qrVars, svdVars, lsVars, propVars, caller>>

ResolveMatching ==
    /\ \E layout \in Layouts :
          \E o \in slice_and_layout_matching_mut(view, layout) :
              res' = [op |-> "matching", layout |-> layout, val |-> o]
    /\ UNCHANGED <<view, permVars, luVars, qrVars, svdVars, lsVars, propVars, caller>>

ResolversNext == ResolveInternal \/ ResolveMatrix \/ ResolveUtil \/ ResolveMatching

SpecResolvers == ResolversInit /\ [][ResolversNext]_vars

(***************************************************************************)
(* C27: every pair the matching resolver returns gives the guarantees of   *)
(* a pair of the layout resolver for the requested layout, the             *)
(* single-column shortcut included: the leading dimension (the row stride  *)
(* on the shortcut) is not negative, the slice stays within the buffer,    *)
(* and the leading dimension is at least rows with ColumnMajor and at      *)
(* least cols with RowMajor.                                               *)
(***************************************************************************)
C27_MatchingGuarantees ==
    (res # Idle /\ res.op = "matching" /\ res.val.tag = "Some") =>
        /\ res.val.ld >= 0
        /\ view.off + res.val.nelem <= view.buflen
        /\ res.layout = "ColumnMajor" => res.val.ld >= view.rows
        /\ res.layout = "RowMajor" => res.val.ld >= view.cols

(***************************************************************************)
(* C28: for every factor set produced by QR compute and every k up to the  *)
(* number of rows, the form-Q call that qk(k) makes to the backend gets    *)
(* rows >= k >= reflectors >= 0, where reflectors = min(k, cols) is at     *)
(* most the number of stored Householder scalars, and that number is       *)
(* exactly min(rows, cols).                                                *)
(***************************************************************************)
C28_FormQArguments ==
    (qrOut # Idle /\ qrOut.op \in {"qk", "q"} /\ qrOut.k <= qrFs.mat.m
       /\ qrOut.call.tag = "Call") =>
        /\ qrOut.call.m = qrIn.m
        /\ qrOut.call.n = qrOut.k
        /\ qrOut.call.m >= qrOut.call.n
        /\ qrOut.call.n >= qrOut.call.k
        /\ qrOut.call.k >= 0
        /\ qrOut.call.k = Min(qrOut.k, qrIn.n)
        /\ qrOut.call.k <= Len(qrFs.tau)
        /\ Len(qrFs.tau) = Min(qrIn.m, qrIn.n)

C28_Witness ==
    /\ qrOut # Idle /\ qrOut.op = "qk" /\ qrOut.val.tag = "Ok"
    /\ qrOut.call.tag = "Call"
    /\ qrOut.call.k >= 1 /\ qrOut.call.m > qrOut.call.n
    /\ qrOut.call.n < qrIn.n

(***************************************************************************)
(* C30: in the SVD's compute_into, the leading dimensions passed to the    *)
(* backend for U and for Vt fit the matrices allocated for them in the     *)
(* resolved layout: each is at least the minor count, and                  *)
(* (major count - 1) * ld + minor count is at most the number of elements  *)
(* allocated, in the Full and Economic modes, for every m, n >= 1 and for  *)
(* both layouts.                                                           *)
(***************************************************************************)
C30_VectorLeadingDimensionsFit ==
    (svdOut # Idle /\ svdOut.op = "compute_into" /\ svdIn.cv # "None"
       /\ svdOut.val.tag \in {"Ok", "Err", "Crash"}
       /\ svdOut.val # [tag |-> "Err", err |-> <<"BadLayout">>]) =>
        \A o \in slice_and_layout_mut(ViewOf(svdIn.mat)) :
            o.tag = "Some" =>
                LET m == svdIn.mat.m
                    n == svdIn.mat.n
                    ld == SVD_leading_dimensions(m, n)
                IN /\ FitsAllocation(matrix_with_layout(u_size(svdIn.cv, m, n), o.layout),
                                     ld.ldu, o.layout)
                   /\ FitsAllocation(matrix_with_layout(vt_size(svdIn.cv, m, n), o.layout),
                                     ld.ldvt, o.layout)

(***************************************************************************)
(* C29: the three copies of the layout resolver (util/internal.rs,         *)
(* matrix.rs, util.rs) return the same outcome for every view: failure,    *)
(* or the same layout, leading dimension and slice length.  In particular  *)
(* each resolves a view whose columns are contiguous, with strides (1, n)  *)
(* and n > 1, as ColumnMajor with leading dimension n.                     *)
(***************************************************************************)
C29_ResolverCopiesAgree ==
    (res # Idle /\ res.op \in {"internal", "matrix", "util"}) =>
        /\ res.val \in slice_and_layout_mut(view)
        /\ res.val \in matrix_slice_and_layout_mut(view)
        /\ res.val \in util_slice_and_layout_mut(view)
        /\ (view.s0 = 1 /\ view.s1 > 1 /\ res.val.tag # "Panic") =>
              /\ res.val.tag = "Some"
              /\ res.val.layout = "ColumnMajor"
              /\ res.val.ld = view.s1

====
